---- MODULE Spec2Model ----
(***************************************************************************)
(* Verification model of the dashboard synchronisation core of             *)
(* paperless-ai-renamer's frontend:                                        *)
(*   - ProgressProvider  (frontend/src/contexts/ProgressContext.tsx)       *)
(*   - ArchiveBrowser    (components/ArchiveBrowser.tsx, unnamed/part_002) *)
(*   - ActivityBar       (components/ActivityBar.tsx,    unnamed/part_001) *)
(* Each component is checked under its own specification (SpecProgress,    *)
(* SpecProgressLive, SpecStore, SpecNotify, SpecEvents, SpecArchive,       *)
(* SpecDisplay); the variables of the other components stay at their       *)
(* initial values there.                                                   *)
(***************************************************************************)
EXTENDS Integers, Sequences, FiniteSets, TLC

VARIABLES
    \* ---- backend (external collaborator) ----
    serverJobs,          \* the job feed the backend would answer with now
    \* ---- ProgressProvider ----
    progress,            \* useState progress
    loading,             \* useState loading
    previousProgressRef, \* useRef previousProgressRef.current
    isMountedRef,        \* useRef isMountedRef.current
    mountGen,            \* number of times the mount effect has run
    pc,                  \* per effect run: where that run's poll loop stands
    completionEvents,    \* per job: completion events ArchiveBrowser's subscriber produced
    seenRunning,         \* per job: the store held it as running since the last mount
    lastOp,              \* the operation of the last step (history)
    fetchedInMount,      \* a non-waiting fetch succeeded since the last mount (history)
    waited,              \* per loop: ms elapsed since its pending retry timer was armed
    \* ---- ArchiveBrowser ----
    activeTab,           \* useState activeTab
    items,               \* renameItems / indexItems / scanItems / errorItems
    browserLoading,      \* useState loading of ArchiveBrowser
    hasMore,             \* useState hasMore
    currentPage,         \* useState currentPage
    fetchingRef,         \* useRef fetchingRef.current
    archiveReqs,         \* per category: the outstanding /archive requests
    refreshTimers,       \* pending setTimeout(..., 0) refresh callbacks, by job id
    isClearing,          \* useState isClearing: a DELETE /archive is outstanding
    requested,           \* per category: pages requested since its last reset (history)
    issuedCount,         \* number of /archive requests issued so far (history)
    exhausted,           \* per category: the response to a request issued since its
                         \* last reset was applied with has_more = false (history)
    \* ---- ActivityBar ----
    now,                 \* Date.now(), in ms
    barMounted,          \* ActivityBar is mounted
    barProgress,         \* the progress object useProgress() gave the last render
    displayedProgress,   \* useState displayedProgress
    lastUpdateTimeRef,   \* useRef lastUpdateTimeRef.current
    updateTimerRef,      \* useRef updateTimerRef.current: a timeout id, 0 for null
    timeouts,            \* the pending window.setTimeout callbacks of ActivityBar
    hasCleanup,          \* the last run of the debounce effect returned its cleanup
    lastPushAt,          \* when the provider last pushed a feed, -1 if never (history)
    lastFired,           \* the id of the timeout that fired in the last step (history)
    lastChangeAt,        \* when the displayed feed last changed, -1 if never (history)
    \* ---- ProgressProvider's subscribers ----
    subscribersRef,      \* useRef subscribersRef.current: a Set, in insertion order
    lastRound,           \* the last notification round: who was invoked, with what (history)
    \* ---- the subscribers of ActivityBar and ArchiveBrowser ----
    currentProgress,     \* the feed the subscribers are called with as current
    previousProgress,    \* the feed the subscribers are called with as previous
    toasts,              \* the setToastMessage calls of the last round
    refreshes,           \* the jobs the last round scheduled an archive refresh for
    rounds,              \* number of rounds the subscribers were called in (history)
    \* ---- the job type of a job id ----
    jobId,               \* the key of a job in the progress feed
    jobType,             \* what ActivityBar's getJobType(jobId) returned, "" before
    completionSeen,      \* ArchiveBrowser's refresh callback for jobId has run
    refreshedCats,       \* the categories that callback called fetchArchive for
    \* ---- DocumentProcessor / FloatingActionButton: the process-document form ----
    form,                \* the component the form belongs to
    documentId,          \* useState documentId: the text of the input field
    formLoading,         \* useState loading
    message,             \* useState message
    modalOpen,           \* the dialog of the form is open
    messageTimer,        \* the setTimeout armed after a success is pending
    processRequest,      \* the body of the outstanding POST /process-documents
    formOp,              \* the handler that ran last (history)
    \* ---- ProgressView ----
    viewMounted,         \* the effect's local isMounted
    viewPc,              \* where ProgressView's polling loop is
    viewProgress,        \* useState progress
    viewLoading,         \* useState loading
    viewError,           \* useState error: the words of the text, <<>> for null
    viewOp,              \* the last step of the loop and whether it found the
                         \* component mounted (history)
    \* ---- apiService.getProgress ----
    call,                \* the arguments getProgress is called with
    request              \* the GET /progress requests it issued, as given to axios

pvars == <<serverJobs, progress, loading, previousProgressRef, isMountedRef,
           mountGen, pc, completionEvents, seenRunning, lastOp, fetchedInMount,
           waited>>

avars == <<activeTab, items, browserLoading, hasMore, currentPage, fetchingRef,
           archiveReqs, refreshTimers, isClearing, requested, issuedCount, exhausted>>

dvars == <<now, barMounted, barProgress, displayedProgress, lastUpdateTimeRef,
           updateTimerRef, timeouts, hasCleanup, lastChangeAt, lastPushAt, lastFired>>

nvars == <<subscribersRef, lastRound>>

evars == <<currentProgress, previousProgress, toasts, refreshes, rounds>>

jvars == <<jobId, jobType, completionSeen, refreshedCats>>

fvars == <<form, documentId, formLoading, message, modalOpen, messageTimer,
           processRequest, formOp>>

wvars == <<viewMounted, viewPc, viewProgress, viewLoading, viewError, viewOp>>

gvars == <<call, request>>

\* the components modelled on their own
svars == <<jvars, fvars, wvars, gvars>>

vars == <<pvars, avars, dvars, nvars, evars, svars>>

----------------------------------------------------------------------------
\* Bounds of the model
MaxMounts == 2
MaxRequests == 4
MaxTimers == 1
MaxTicks == 8
MaxRuns == 1
MaxActing == 1
MaxErrors == 2
MaxRounds == 2

----------------------------------------------------------------------------
\* Job snapshots and feeds

\* job ids are strings, written as sequences of characters so that startsWith is
\* computed on them
IndexId == <<"i", "n", "d", "e", "x">>
ScanId == <<"s", "c", "a", "n", "-", "1">>
ProcessId == <<"p", "r", "o", "c", "e", "s", "s", "-", "7">>
JobIds == {IndexId, ScanId, ProcessId}

\* the jobs the backend runs while the provider is observed
BackendJobs == {IndexId, ScanId}

StartsWith(str, prefix) ==
    Len(str) >= Len(prefix) /\ SubSeq(str, 1, Len(prefix)) = prefix

\* "absent" stands for a job id that is no key of the feed
Status == {"absent", "running", "completed", "failed"}
Terminal == {"completed", "failed"}

Feed == [JobIds -> Status]
EmptyFeed == [j \in JobIds |-> "absent"]

\* a store that merges the response into the feed it holds: a job the response
\* leaves out keeps its last snapshot
NormalizeMerged(data) ==
    [j \in JobIds |-> IF data.jobs[j] = "absent" THEN progress[j] ELSE data.jobs[j]]

\* data.jobs || { [data.status || 'unknown']: data }: /progress without a job id
\* answers {jobs: map}; an empty map is truthy, so the map is taken as it is
NormalizeProgress(data) == data.jobs

\* a subscriber without the second test: only running -> finished counts
JobNowCompletedNever(cur, prev, j) == FALSE

\* a subscriber that takes every finished job as newly finished
JobNowCompletedAlways(cur, prev, j) == cur[j] \in Terminal

\* ArchiveBrowser's subscriber: the jobs of (current, previous) it refreshes for
JobJustCompleted(cur, prev, j) == prev[j] = "running" /\ cur[j] \in Terminal
JobNowCompleted(cur, prev, j) == cur[j] \in Terminal /\ prev[j] # cur[j]
CompletionJobs(cur, prev) ==
    {j \in JobIds : cur[j] # "absent"
                    /\ (JobJustCompleted(cur, prev, j) \/ JobNowCompleted(cur, prev, j))}

----------------------------------------------------------------------------
\* ProgressProvider

Gens == 1..MaxMounts
RequestPcs == {"initial", "poll", "resync"}
TimerPcs == {"timerInit", "timer2s", "timer5s"}

Outstanding == {g \in Gens : pc[g] \in RequestPcs}

\* the effect run that started loop g has been cleaned up
LoopDead(g) == ~isMountedRef \/ g # mountGen

Op(name, g, issued, notified, unchanged) ==
    [op |-> name, gen |-> g, dead |-> LoopDead(g), issued |-> issued,
     notified |-> notified, unchanged |-> unchanged]

\* a store that never moves previous on
NextPreviousKept(cur) == previousProgressRef

\* what previousProgressRef.current holds after a fetched feed was delivered
NextPrevious(cur) == cur

\* notifySubscribers(current, previous) as ArchiveBrowser's subscriber sees it:
\* one completion event per job of CompletionJobs
Notified(cur, prev) ==
    [j \in JobIds |-> IF j \in CompletionJobs(cur, prev)
                      THEN completionEvents[j] + 1 ELSE completionEvents[j]]

SeenAfter(feed) == [j \in JobIds |-> seenRunning[j] \/ feed[j] = "running"]

\* setProgress / setLoading(false) / notifySubscribers / previousProgressRef.current =
\* currentProgress, the block shared by the long-poll and the resync success paths
DeliverFeed(data) ==
    LET cur == NormalizeProgress(data) IN
    /\ progress' = cur
    /\ loading' = FALSE
    /\ completionEvents' = Notified(cur, previousProgressRef)
    /\ previousProgressRef' = NextPrevious(cur)
    /\ seenRunning' = SeenAfter(NextPrevious(cur))

ServerData == [jobs |-> serverJobs]

\* the isMountedRef.current test every response continuation starts with
StillMounted == isMountedRef

\* history: the effect body starts a mount with no fetch answered yet; a non-waiting
\* fetch (fetchInitialState's, or the resync) that resolves while mounted is its success
FetchedAfter ==
    IF lastOp'.op = "mount" THEN FALSE
    ELSE IF lastOp'.op \in {"initialOk", "resyncOk"} /\ lastOp'.issued THEN TRUE
    ELSE fetchedInMount

\* setTimeout(..., 2000) after a failed resync
ResyncRetryDelay == 2000

\* setTimeout(..., 5000) after a long-poll failure that is no timeout
PollRetryDelay == 5000

\* retry timers with the two delays exchanged
RetryDelaySwapped(p) == IF p = "timer2s" THEN PollRetryDelay ELSE ResyncRetryDelay

\* the delay the pending retry timer of a loop at position p was armed with
RetryDelay(p) == IF p = "timer2s" THEN ResyncRetryDelay ELSE PollRetryDelay

\* the step by which time advances
ElapseMs == ResyncRetryDelay \div 2

RetryPcs == {"timer2s", "timer5s"}

\* setTimeout starts a retry timer with no time waited; a loop without a pending
\* retry timer has none
WaitedAfter ==
    [g \in Gens |-> IF pc'[g] \in RetryPcs /\ pc[g] \in RetryPcs THEN waited[g] ELSE 0]

\* useEffect body: isMountedRef.current = true; fetchInitialState()
Mount ==
    /\ ~isMountedRef
    /\ mountGen < MaxMounts
    /\ isMountedRef' = TRUE
    /\ mountGen' = mountGen + 1
    /\ pc' = [pc EXCEPT ![mountGen + 1] = "initial"]
    /\ seenRunning' = [j \in JobIds |-> FALSE]
    /\ lastOp' = [op |-> "mount", gen |-> mountGen + 1, dead |-> FALSE,
                  issued |-> TRUE, notified |-> FALSE, unchanged |-> FALSE]
    /\ UNCHANGED <<serverJobs, progress, loading, previousProgressRef, completionEvents>>
    /\ fetchedInMount' = FetchedAfter
    /\ waited' = WaitedAfter
    /\ UNCHANGED <<avars, dvars, nvars, evars, svars>>

\* useEffect cleanup: isMountedRef.current = false
Unmount ==
    /\ isMountedRef
    /\ isMountedRef' = FALSE
    /\ lastOp' = [op |-> "unmount", gen |-> mountGen, dead |-> FALSE,
                  issued |-> FALSE, notified |-> FALSE, unchanged |-> FALSE]
    /\ UNCHANGED <<serverJobs, progress, loading, previousProgressRef, mountGen, pc,
                   completionEvents, seenRunning>>
    /\ fetchedInMount' = FetchedAfter
    /\ waited' = WaitedAfter
    /\ UNCHANGED <<avars, dvars, nvars, evars, svars>>

\* an initial fetch that only starts the long-poll and leaves the store as it was
InitialOkDeferred(g) ==
    /\ pc[g] = "initial"
    /\ pc' = [pc EXCEPT ![g] = IF StillMounted THEN "poll" ELSE "done"]
    /\ lastOp' = Op("initialOk", g, StillMounted, FALSE, FALSE)
    /\ UNCHANGED <<serverJobs, progress, previousProgressRef, loading, seenRunning,
                   isMountedRef, mountGen, completionEvents>>
    /\ fetchedInMount' = FetchedAfter
    /\ waited' = WaitedAfter
    /\ UNCHANGED <<avars, dvars, nvars, evars, svars>>

\* fetchInitialState: the non-waiting fetch succeeded
InitialOk(g) ==
    /\ pc[g] = "initial"
    /\ IF StillMounted
       THEN LET cur == NormalizeProgress(ServerData) IN
            /\ progress' = cur
            /\ previousProgressRef' = cur
            /\ loading' = FALSE
            /\ seenRunning' = SeenAfter(cur)
            /\ pc' = [pc EXCEPT ![g] = "poll"]
            /\ lastOp' = Op("initialOk", g, TRUE, FALSE, FALSE)
       ELSE /\ pc' = [pc EXCEPT ![g] = "done"]
            /\ lastOp' = Op("initialOk", g, FALSE, FALSE, FALSE)
            /\ UNCHANGED <<progress, previousProgressRef, loading, seenRunning>>
    /\ UNCHANGED <<serverJobs, isMountedRef, mountGen, completionEvents>>
    /\ fetchedInMount' = FetchedAfter
    /\ waited' = WaitedAfter
    /\ UNCHANGED <<avars, dvars, nvars, evars, svars>>

\* fetchInitialState: the non-waiting fetch failed
InitialFail(g) ==
    /\ pc[g] = "initial"
    /\ IF StillMounted
       THEN /\ loading' = FALSE
            /\ pc' = [pc EXCEPT ![g] = "timerInit"]
       ELSE /\ pc' = [pc EXCEPT ![g] = "done"]
            /\ UNCHANGED loading
    /\ lastOp' = Op("initialFail", g, FALSE, FALSE, FALSE)
    /\ UNCHANGED <<serverJobs, progress, previousProgressRef, isMountedRef, mountGen,
                   completionEvents, seenRunning>>
    /\ fetchedInMount' = FetchedAfter
    /\ waited' = WaitedAfter
    /\ UNCHANGED <<avars, dvars, nvars, evars, svars>>

\* the 2000 ms retry timer of fetchInitialState
InitialRetryTimer(g) ==
    /\ pc[g] = "timerInit"
    /\ IF StillMounted
       THEN /\ pc' = [pc EXCEPT ![g] = "initial"]
            /\ lastOp' = Op("initialRetry", g, TRUE, FALSE, FALSE)
       ELSE /\ pc' = [pc EXCEPT ![g] = "done"]
            /\ lastOp' = Op("initialRetry", g, FALSE, FALSE, FALSE)
    /\ UNCHANGED <<serverJobs, progress, loading, previousProgressRef, isMountedRef,
                   mountGen, completionEvents, seenRunning>>
    /\ fetchedInMount' = FetchedAfter
    /\ waited' = WaitedAfter
    /\ UNCHANGED <<avars, dvars, nvars, evars, svars>>

\* fetchAllJobsWithLongPolling: the long-poll answered
PollOk(g) ==
    /\ pc[g] = "poll"
    /\ IF StillMounted
       THEN /\ DeliverFeed(ServerData)
            /\ pc' = [pc EXCEPT ![g] = "poll"]
            /\ lastOp' = Op("pollOk", g, TRUE, TRUE,
                            NormalizeProgress(ServerData) = previousProgressRef)
       ELSE /\ pc' = [pc EXCEPT ![g] = "done"]
            /\ lastOp' = Op("pollOk", g, FALSE, FALSE, FALSE)
            /\ UNCHANGED <<progress, loading, previousProgressRef, completionEvents,
                           seenRunning>>
    /\ UNCHANGED <<serverJobs, isMountedRef, mountGen>>
    /\ fetchedInMount' = FetchedAfter
    /\ waited' = WaitedAfter
    /\ UNCHANGED <<avars, dvars, nvars, evars, svars>>

\* what a rejected getProgress throws: an axios error with its code, the words of
\* its message and the HTTP status of its response (0: no response)
Errors ==
    [code : {"ECONNABORTED", "ERR_NETWORK"},
     message : {<<"timeout", "of", "35000ms", "exceeded">>, <<"Network", "Error">>},
     status : {0, 408, 500}]

\* err.message?.includes(word)
Includes(text, word) == \E k \in 1..Len(text) : text[k] = word

\* err.code === 'ECONNABORTED' || err.message?.includes('timeout') ||
\* err.response?.status === 408
IsTimeout(err) ==
    err.code = "ECONNABORTED" \/ Includes(err.message, "timeout") \/ err.status = 408

\* a long-poll that waits 2000 ms after a timeout instead of resyncing at once
PollTimeoutDelayed(g) ==
    /\ pc[g] = "poll"
    /\ pc' = [pc EXCEPT ![g] = IF StillMounted THEN "timer2s" ELSE "done"]
    /\ lastOp' = Op("pollTimeout", g, FALSE, FALSE, FALSE)
    /\ UNCHANGED <<serverJobs, progress, loading, previousProgressRef, isMountedRef,
                   mountGen, completionEvents, seenRunning>>
    /\ fetchedInMount' = FetchedAfter
    /\ waited' = WaitedAfter
    /\ UNCHANGED <<avars, dvars, nvars, evars, svars>>

\* fetchAllJobsWithLongPolling: the long-poll timed out; resync with wait=false
PollTimeout(g) ==
    /\ pc[g] = "poll"
    /\ IF StillMounted
       THEN /\ pc' = [pc EXCEPT ![g] = "resync"]
            /\ lastOp' = Op("pollTimeout", g, TRUE, FALSE, FALSE)
       ELSE /\ pc' = [pc EXCEPT ![g] = "done"]
            /\ lastOp' = Op("pollTimeout", g, FALSE, FALSE, FALSE)
    /\ UNCHANGED <<serverJobs, progress, loading, previousProgressRef, isMountedRef,
                   mountGen, completionEvents, seenRunning>>
    /\ fetchedInMount' = FetchedAfter
    /\ waited' = WaitedAfter
    /\ UNCHANGED <<avars, dvars, nvars, evars, svars>>

\* a long-poll that gives up after a failure that is not a timeout
PollErrorGivesUp(g) ==
    /\ pc[g] = "poll"
    /\ pc' = [pc EXCEPT ![g] = "done"]
    /\ lastOp' = Op("pollError", g, FALSE, FALSE, FALSE)
    /\ UNCHANGED <<serverJobs, progress, loading, previousProgressRef, isMountedRef,
                   mountGen, completionEvents, seenRunning>>
    /\ fetchedInMount' = FetchedAfter
    /\ waited' = WaitedAfter
    /\ UNCHANGED <<avars, dvars, nvars, evars, svars>>

\* fetchAllJobsWithLongPolling: the long-poll failed otherwise; retry in 5000 ms
PollError(g) ==
    /\ pc[g] = "poll"
    /\ IF StillMounted
       THEN pc' = [pc EXCEPT ![g] = "timer5s"]
       ELSE pc' = [pc EXCEPT ![g] = "done"]
    /\ lastOp' = Op("pollError", g, FALSE, FALSE, FALSE)
    /\ UNCHANGED <<serverJobs, progress, loading, previousProgressRef, isMountedRef,
                   mountGen, completionEvents, seenRunning>>
    /\ fetchedInMount' = FetchedAfter
    /\ waited' = WaitedAfter
    /\ UNCHANGED <<avars, dvars, nvars, evars, svars>>

\* fetchAllJobsWithLongPolling: the catch block, entered with err
PollFail(g, err) == IF IsTimeout(err) THEN PollTimeout(g) ELSE PollError(g)

\* the resync after a long-poll timeout answered
ResyncOk(g) ==
    /\ pc[g] = "resync"
    /\ IF StillMounted
       THEN /\ DeliverFeed(ServerData)
            /\ pc' = [pc EXCEPT ![g] = "poll"]
            /\ lastOp' = Op("resyncOk", g, TRUE, TRUE,
                            NormalizeProgress(ServerData) = previousProgressRef)
       ELSE /\ pc' = [pc EXCEPT ![g] = "done"]
            /\ lastOp' = Op("resyncOk", g, FALSE, FALSE, FALSE)
            /\ UNCHANGED <<progress, loading, previousProgressRef, completionEvents,
                           seenRunning>>
    /\ UNCHANGED <<serverJobs, isMountedRef, mountGen>>
    /\ fetchedInMount' = FetchedAfter
    /\ waited' = WaitedAfter
    /\ UNCHANGED <<avars, dvars, nvars, evars, svars>>

\* the resync failed; retry the long-poll in 2000 ms
ResyncFail(g) ==
    /\ pc[g] = "resync"
    /\ IF StillMounted
       THEN pc' = [pc EXCEPT ![g] = "timer2s"]
       ELSE pc' = [pc EXCEPT ![g] = "done"]
    /\ lastOp' = Op("resyncFail", g, FALSE, FALSE, FALSE)
    /\ UNCHANGED <<serverJobs, progress, loading, previousProgressRef, isMountedRef,
                   mountGen, completionEvents, seenRunning>>
    /\ fetchedInMount' = FetchedAfter
    /\ waited' = WaitedAfter
    /\ UNCHANGED <<avars, dvars, nvars, evars, svars>>

\* setTimeout(() => { fetchAllJobsWithLongPolling(); }, 2000 | 5000): the callback
\* calls the long-poll without looking at isMountedRef
RetryTimer(g) ==
    /\ pc[g] \in RetryPcs
    /\ waited[g] >= RetryDelay(pc[g])
    /\ pc' = [pc EXCEPT ![g] = "poll"]
    /\ lastOp' = Op("retryTimer", g, TRUE, FALSE, FALSE)
    /\ UNCHANGED <<serverJobs, progress, loading, previousProgressRef, isMountedRef,
                   mountGen, completionEvents, seenRunning>>
    /\ fetchedInMount' = FetchedAfter
    /\ waited' = WaitedAfter
    /\ UNCHANGED <<avars, dvars, nvars, evars, svars>>

\* time passes while a retry timer is pending and not yet due
Elapse ==
    /\ \E g \in Gens : pc[g] \in RetryPcs /\ waited[g] < RetryDelay(pc[g])
    /\ waited' = [g \in Gens |->
                     IF pc[g] \in RetryPcs /\ waited[g] < RetryDelay(pc[g])
                     THEN waited[g] + ElapseMs ELSE waited[g]]
    /\ lastOp' = [op |-> "elapse", gen |-> mountGen, dead |-> FALSE,
                  issued |-> FALSE, notified |-> FALSE, unchanged |-> FALSE]
    /\ UNCHANGED <<serverJobs, progress, loading, previousProgressRef, isMountedRef,
                   mountGen, pc, completionEvents, seenRunning>>
    /\ fetchedInMount' = FetchedAfter
    /\ UNCHANGED <<avars, dvars, nvars, evars, svars>>

\* the backend: a job starts, or a running job ends
ServerStep(j) ==
    /\ \/ /\ serverJobs[j] = "absent"
          /\ serverJobs' = [serverJobs EXCEPT ![j] = "running"]
       \/ /\ serverJobs[j] = "running"
          /\ \E t \in Terminal : serverJobs' = [serverJobs EXCEPT ![j] = t]
    /\ lastOp' = [op |-> "server", gen |-> mountGen, dead |-> FALSE,
                  issued |-> FALSE, notified |-> FALSE, unchanged |-> FALSE]
    /\ UNCHANGED <<progress, loading, previousProgressRef, isMountedRef, mountGen, pc,
                   completionEvents, seenRunning>>
    /\ fetchedInMount' = FetchedAfter
    /\ waited' = WaitedAfter
    /\ UNCHANGED <<avars, dvars, nvars, evars, svars>>

ProgressInit ==
    /\ serverJobs = EmptyFeed
    /\ progress = EmptyFeed
    /\ loading = TRUE
    /\ previousProgressRef = EmptyFeed
    /\ isMountedRef = TRUE
    /\ mountGen = 1
    /\ pc = [g \in Gens |-> IF g = 1 THEN "initial" ELSE "none"]
    /\ completionEvents = [j \in JobIds |-> 0]
    /\ seenRunning = [j \in JobIds |-> FALSE]
    /\ lastOp = [op |-> "mount", gen |-> 1, dead |-> FALSE, issued |-> TRUE,
                 notified |-> FALSE, unchanged |-> FALSE]
    /\ fetchedInMount = FALSE
    /\ waited = [g \in Gens |-> 0]


----------------------------------------------------------------------------
\* ArchiveBrowser

Categories == {"rename", "index", "scan", "error"}
Tabs == {"rename", "jobs", "issues"}

\* the categories a tab shows, in the order the tab-change effect fetches them
TabCategories(t) ==
    IF t = "rename" THEN <<"rename">>
    ELSE IF t = "jobs" THEN <<"index", "scan">>
    ELSE <<"error">>

\* apiService.getArchive(type, page, 50): the items of page p, one token per page
PageItems(p) == <<p>>

\* the part of the component's state fetchArchive writes before its await
CallState ==
    [fetching |-> fetchingRef, loading |-> browserLoading, reqs |-> archiveReqs,
     requested |-> requested, count |-> issuedCount]

\* the in-flight guard: fetchArchive returns at once when it is set
GuardBlocks(s, type) == s.fetching[type]

\* fetchArchive(type, page, append, isInitial) up to the await of getArchive
FetchArchive(s, type, page, append, isInitial, src) ==
    IF GuardBlocks(s, type)
    THEN s
    ELSE [s EXCEPT !.fetching[type] = TRUE,
                   !.loading = IF isInitial THEN @ ELSE TRUE,
                   !.reqs[type] = Append(@, [page |-> page, append |-> append,
                                             isInitial |-> isInitial, src |-> src,
                                             stale |-> FALSE]),
                   !.requested[type] = IF src = "refresh" THEN <<page>>
                                       ELSE Append(@, page),
                   !.count = @ + 1]

WithinBounds(s) == s.count <= MaxRequests

Commit(s) ==
    /\ WithinBounds(s)
    /\ fetchingRef' = s.fetching
    /\ browserLoading' = s.loading
    /\ archiveReqs' = s.reqs
    /\ requested' = s.requested
    /\ issuedCount' = s.count

RemoveAt(q, i) == [k \in 1..(Len(q) - 1) |-> IF k < i THEN q[k] ELSE q[k + 1]]

\* a reset of the categories cats: the requests of cats still outstanding were
\* issued before it (history; the code keeps no such mark)
MarkStale(reqs, cats) ==
    [c \in Categories |->
        IF c \in cats THEN [k \in 1..Len(reqs[c]) |-> [reqs[c][k] EXCEPT !.stale = TRUE]]
        ELSE reqs[c]]

\* fetchArchive after the await: the page arrived
ArchiveOk(c, i, more) ==
    /\ i \in 1..Len(archiveReqs[c])
    /\ LET r == archiveReqs[c][i] IN
       /\ items' = [items EXCEPT ![c] = IF r.append THEN @ \o PageItems(r.page)
                                        ELSE PageItems(r.page)]
       /\ hasMore' = [hasMore EXCEPT ![c] = more]
       /\ fetchingRef' = [fetchingRef EXCEPT ![c] = FALSE]
       /\ browserLoading' = IF r.isInitial THEN browserLoading ELSE FALSE
    /\ archiveReqs' = [archiveReqs EXCEPT ![c] = RemoveAt(@, i)]
    /\ UNCHANGED <<activeTab, currentPage, refreshTimers, isClearing, requested,
                   issuedCount>>
    /\ exhausted' = [exhausted EXCEPT ![c] = @ \/ (~more /\ ~archiveReqs[c][i].stale)]
    /\ UNCHANGED <<pvars, dvars, nvars, evars, svars>>

\* fetchArchive after the await: getArchive threw
ArchiveFail(c, i) ==
    /\ i \in 1..Len(archiveReqs[c])
    /\ LET r == archiveReqs[c][i] IN
       /\ fetchingRef' = [fetchingRef EXCEPT ![c] = FALSE]
       /\ browserLoading' = IF r.isInitial THEN browserLoading ELSE FALSE
    /\ archiveReqs' = [archiveReqs EXCEPT ![c] = RemoveAt(@, i)]
    /\ UNCHANGED <<activeTab, items, hasMore, currentPage, refreshTimers, isClearing,
                   requested, issuedCount>>
    /\ UNCHANGED exhausted
    /\ UNCHANGED <<pvars, dvars, nvars, evars, svars>>

RECURSIVE FetchAll(_, _, _, _, _, _)
\* fetchArchive called for each category of cats in turn
FetchAll(s, cats, pageOf, append, isInitial, src) ==
    IF cats = <<>> THEN s
    ELSE FetchAll(FetchArchive(s, Head(cats), pageOf[Head(cats)], append, isInitial, src),
                  Tail(cats), pageOf, append, isInitial, src)

InSeq(q) == {q[k] : k \in 1..Len(q)}

\* a tab-change effect that leaves the in-flight guard as it is
TabChangeKeepingGuard(t) ==
    /\ t # activeTab
    /\ activeTab' = t
    /\ LET cats == InSeq(TabCategories(t))
           s0 == [CallState EXCEPT
                    !.reqs = MarkStale(archiveReqs, cats),
                    !.requested = [c \in Categories |->
                                      IF c \in cats THEN <<>> ELSE requested[c]]]
           s1 == FetchAll(s0, TabCategories(t), [c \in Categories |-> 1],
                          FALSE, TRUE, "tab")
       IN /\ Commit(s1)
          /\ items' = [c \in Categories |-> IF c \in cats THEN <<>> ELSE items[c]]
          /\ currentPage' = [c \in Categories |-> IF c \in cats THEN 1 ELSE currentPage[c]]
          /\ hasMore' = [c \in Categories |-> IF c \in cats THEN TRUE ELSE hasMore[c]]
    /\ UNCHANGED <<refreshTimers, isClearing>>
    /\ exhausted' = [c \in Categories |->
                         IF c \in InSeq(TabCategories(t)) THEN FALSE ELSE exhausted[c]]
    /\ UNCHANGED <<pvars, dvars, nvars, evars, svars>>

\* the tab-change effect, run when activeTab becomes t
TabChange(t) ==
    /\ t # activeTab
    /\ activeTab' = t
    /\ LET cats == InSeq(TabCategories(t))
           s0 == [CallState EXCEPT
                    !.fetching = [c \in Categories |-> FALSE],
                    !.reqs = MarkStale(archiveReqs, cats),
                    !.requested = [c \in Categories |->
                                      IF c \in cats THEN <<>> ELSE requested[c]]]
           s1 == FetchAll(s0, TabCategories(t), [c \in Categories |-> 1],
                          FALSE, TRUE, "tab")
       IN /\ Commit(s1)
          /\ items' = [c \in Categories |-> IF c \in cats THEN <<>> ELSE items[c]]
          /\ currentPage' = [c \in Categories |-> IF c \in cats THEN 1 ELSE currentPage[c]]
          /\ hasMore' = [c \in Categories |-> IF c \in cats THEN TRUE ELSE hasMore[c]]
    /\ UNCHANGED <<refreshTimers, isClearing>>
    /\ exhausted' = [c \in Categories |->
                         IF c \in InSeq(TabCategories(t)) THEN FALSE ELSE exhausted[c]]
    /\ UNCHANGED <<pvars, dvars, nvars, evars, svars>>

\* the categories of the active tab the intersection callback fetches the next page of
ScrollCategories ==
    SelectSeq(TabCategories(activeTab), LAMBDA c : hasMore[c] /\ ~fetchingRef[c])

\* the IntersectionObserver callback: the sentinel is visible
ScrollTrigger ==
    /\ ~browserLoading
    /\ ScrollCategories # <<>>
    /\ LET s1 == FetchAll(CallState, ScrollCategories,
                          [c \in Categories |-> currentPage[c] + 1], TRUE, FALSE, "scroll")
       IN /\ Commit(s1)
    /\ currentPage' = [c \in Categories |->
                          IF c \in InSeq(ScrollCategories) THEN currentPage[c] + 1
                          ELSE currentPage[c]]
    /\ UNCHANGED <<activeTab, items, hasMore, refreshTimers, isClearing>>
    /\ UNCHANGED exhausted
    /\ UNCHANGED <<pvars, dvars, nvars, evars, svars>>

\* the feeds the subscriber is called with: the snapshot of one job
JobFeed(j, st) == [EmptyFeed EXCEPT ![j] = st]

\* ArchiveBrowser's progress subscriber called with (current, previous): one
\* setTimeout(..., 0) per job that just completed
SubscriberNotified(cur, prev) ==
    /\ CompletionJobs(cur, prev) # {}
    /\ Cardinality(CompletionJobs(cur, prev)) = 1
    /\ Len(refreshTimers) < MaxTimers
    /\ refreshTimers' = Append(refreshTimers, CHOOSE j \in CompletionJobs(cur, prev) : TRUE)
    /\ UNCHANGED <<activeTab, items, browserLoading, hasMore, currentPage, fetchingRef,
                   archiveReqs, isClearing, requested, issuedCount>>
    /\ UNCHANGED exhausted
    /\ UNCHANGED <<pvars, dvars, nvars, evars, svars>>

\* the categories the refresh callback of job id j fetches page 1 of, in call order
RefreshCategories(j) ==
    (IF j = IndexId THEN <<"index">>
     ELSE IF StartsWith(j, <<"s", "c", "a", "n">>) THEN <<"scan">>
     ELSE <<>>) \o <<"rename", "error">>

\* the setTimeout(..., 0) callback scheduled for a completed job
RefreshTimer ==
    /\ refreshTimers # <<>>
    /\ LET j == Head(refreshTimers)
           s1 == FetchAll(CallState, RefreshCategories(j), [c \in Categories |-> 1],
                          FALSE, TRUE, "refresh")
       IN /\ Commit(s1)
    /\ refreshTimers' = Tail(refreshTimers)
    /\ UNCHANGED <<activeTab, items, hasMore, currentPage, isClearing>>
    /\ exhausted' = [c \in Categories |->
                         IF c \in InSeq(RefreshCategories(Head(refreshTimers))) THEN FALSE
                         ELSE exhausted[c]]
    /\ UNCHANGED <<pvars, dvars, nvars, evars, svars>>

\* confirmClearIssues up to the await of clearErrorArchive
ConfirmClear ==
    /\ activeTab = "issues"
    /\ items["error"] # <<>>
    /\ ~isClearing
    /\ isClearing' = TRUE
    /\ UNCHANGED <<activeTab, items, browserLoading, hasMore, currentPage, fetchingRef,
                   archiveReqs, refreshTimers, requested, issuedCount>>
    /\ UNCHANGED exhausted
    /\ UNCHANGED <<pvars, dvars, nvars, evars, svars>>

\* confirmClearIssues after the await: the DELETE succeeded
ClearOk ==
    /\ isClearing
    /\ isClearing' = FALSE
    /\ items' = [items EXCEPT !["error"] = <<>>]
    /\ currentPage' = [currentPage EXCEPT !["error"] = 1]
    /\ hasMore' = [hasMore EXCEPT !["error"] = TRUE]
    /\ LET s0 == [CallState EXCEPT !.requested["error"] = <<>>,
                                    !.reqs = MarkStale(archiveReqs, {"error"})]
           s1 == FetchArchive(s0, "error", 1, FALSE, TRUE, "clear")
       IN /\ Commit(s1)
    /\ UNCHANGED <<activeTab, refreshTimers>>
    /\ exhausted' = [exhausted EXCEPT !["error"] = FALSE]
    /\ UNCHANGED <<pvars, dvars, nvars, evars, svars>>

\* confirmClearIssues after the await: the DELETE failed
ClearFail ==
    /\ isClearing
    /\ isClearing' = FALSE
    /\ UNCHANGED <<activeTab, items, browserLoading, hasMore, currentPage, fetchingRef,
                   archiveReqs, refreshTimers, requested, issuedCount>>
    /\ UNCHANGED exhausted
    /\ UNCHANGED <<pvars, dvars, nvars, evars, svars>>

\* the component after its first render and the tab-change effect for 'rename'
ArchiveInit ==
    /\ activeTab = "rename"
    /\ items = [c \in Categories |-> <<>>]
    /\ browserLoading = FALSE
    /\ hasMore = [c \in Categories |-> TRUE]
    /\ currentPage = [c \in Categories |-> 1]
    /\ fetchingRef = [c \in Categories |-> c = "rename"]
    /\ archiveReqs = [c \in Categories |->
                         IF c = "rename"
                         THEN <<[page |-> 1, append |-> FALSE, isInitial |-> TRUE,
                                 src |-> "tab", stale |-> FALSE]>>
                         ELSE <<>>]
    /\ refreshTimers = <<>>
    /\ isClearing = FALSE
    /\ requested = [c \in Categories |-> IF c = "rename" THEN <<1>> ELSE <<>>]
    /\ issuedCount = 1
    /\ exhausted = [c \in Categories |-> FALSE]

----------------------------------------------------------------------------
\* ActivityBar: the display stabilizer

MIN_DISPLAY_TIME == 1500

\* the clock advances in thirds of MIN_DISPLAY_TIME; Date.now() starts far above
\* the initial lastUpdateTimeRef of 0
TickMs == MIN_DISPLAY_TIME \div 3
StartTime == MIN_DISPLAY_TIME

\* the feeds the provider hands to ActivityBar
DisplayFeeds == {EmptyFeed, JobFeed(ScanId, "running"), JobFeed(ScanId, "completed")}

\* Object.keys(feed).length === 0
IsEmptyFeed(feed) == \A j \in JobIds : feed[j] = "absent"

\* a state object: its identity and its content (React compares identities)
Obj(ref, feed) == [ref |-> ref, feed |-> feed]

\* updateTimerRef.current === null
NoTimer == 0

\* the identity of a newly fetched feed: one no live object has
FreshRef ==
    LET live == {barProgress.ref, displayedProgress.ref}
                    \cup {tm.value.ref : tm \in timeouts}
    IN CHOOSE r \in 0..(Cardinality(live)) :
           r \notin live /\ \A q \in 0..(r - 1) : q \in live

\* the id window.setTimeout returns: one that names no pending timeout and is
\* not the id the ref still holds
FreshTimerId(pending, ref) ==
    LET used == {tm.id : tm \in pending} \cup {ref}
    IN CHOOSE i \in 1..(Cardinality(used) + 1) :
           i \notin used /\ \A q \in 1..(i - 1) : q \in used

\* clearTimeout(id): a no-op when no pending timeout has that id
ClearTimeout(pending, id) == {tm \in pending : tm.id # id}

\* what the debounce effect reads and writes
BarState ==
    [displayed |-> displayedProgress, lastUpdate |-> lastUpdateTimeRef,
     ref |-> updateTimerRef, pending |-> timeouts, cleanup |-> hasCleanup]

\* displayedProgress is empty and progress is not: the 'initial load' test
ShowsAtOnce(p, d) == IsEmptyFeed(d.feed) /\ ~IsEmptyFeed(p.feed)

\* an effect whose cleanup leaves the pending timeout alone
CleanupSkipped(s) == s

\* the cleanup the previous run of the effect returned, if it returned one
Cleanup(s) ==
    IF s.cleanup /\ s.ref # NoTimer
    THEN [s EXCEPT !.pending = ClearTimeout(@, s.ref)]
    ELSE s

\* a debounce that always waits the whole window from now on
EffectBodySlow(s, p, t) ==
    IF ShowsAtOnce(p, s.displayed)
    THEN [s EXCEPT !.displayed = p, !.lastUpdate = t, !.cleanup = FALSE]
    ELSE LET cleared == IF s.ref # NoTimer THEN ClearTimeout(s.pending, s.ref)
                        ELSE s.pending
         IN IF t - s.lastUpdate >= MIN_DISPLAY_TIME
            THEN [s EXCEPT !.displayed = p, !.lastUpdate = t, !.pending = cleared,
                           !.cleanup = TRUE]
            ELSE LET id == FreshTimerId(cleared, s.ref) IN
                 [s EXCEPT !.pending = cleared \cup
                               {[id |-> id, at |-> t + MIN_DISPLAY_TIME + TickMs,
                                 value |-> p]},
                           !.ref = id,
                           !.cleanup = TRUE]

\* a debounce that leaves a pending timeout alone and queues the new one
EffectBodyQueuing(s, p, t) ==
    IF ShowsAtOnce(p, s.displayed)
    THEN [s EXCEPT !.displayed = p, !.lastUpdate = t, !.cleanup = FALSE]
    ELSE IF t - s.lastUpdate >= MIN_DISPLAY_TIME
         THEN [s EXCEPT !.displayed = p, !.lastUpdate = t, !.cleanup = FALSE]
         ELSE LET id == FreshTimerId(s.pending, s.ref) IN
              [s EXCEPT !.pending = @ \cup
                            {[id |-> id,
                              at |-> t + (MIN_DISPLAY_TIME - (t - s.lastUpdate)),
                              value |-> p]},
                        !.ref = id,
                        !.cleanup = FALSE]

\* the body of the debounce effect, run at time t with progress p
EffectBody(s, p, t) ==
    IF ShowsAtOnce(p, s.displayed)
    THEN [s EXCEPT !.displayed = p, !.lastUpdate = t, !.cleanup = FALSE]
    ELSE LET cleared == IF s.ref # NoTimer THEN ClearTimeout(s.pending, s.ref)
                        ELSE s.pending
         IN IF t - s.lastUpdate >= MIN_DISPLAY_TIME
            THEN [s EXCEPT !.displayed = p, !.lastUpdate = t, !.pending = cleared,
                           !.cleanup = TRUE]
            ELSE LET id == FreshTimerId(cleared, s.ref) IN
                 [s EXCEPT !.pending = cleared \cup
                               {[id |-> id,
                                 at |-> t + (MIN_DISPLAY_TIME - (t - s.lastUpdate)),
                                 value |-> p]},
                           !.ref = id,
                           !.cleanup = TRUE]

\* one run of the effect: the previous run's cleanup, then the body
EffectRun(s, p, t) == EffectBody(Cleanup(s), p, t)

\* the effect runs because progress or displayedProgress changed, and runs once
\* more when that run replaced displayedProgress
RunEffect(s, p, t) ==
    LET r1 == EffectRun(s, p, t) IN
    IF r1.displayed.ref # s.displayed.ref
    THEN EffectRun(r1, p, t)
    ELSE r1

ApplyEffect(r) ==
    /\ displayedProgress' = r.displayed
    /\ lastUpdateTimeRef' = r.lastUpdate
    /\ updateTimerRef' = r.ref
    /\ timeouts' = r.pending
    /\ hasCleanup' = r.cleanup
    /\ lastChangeAt' = IF r.displayed.feed # displayedProgress.feed THEN now
                       ELSE lastChangeAt

\* the provider stores a newly fetched feed; ActivityBar renders and runs the effect
PushFeed(f) ==
    /\ barMounted
    /\ LET p == Obj(FreshRef, f) IN
       /\ barProgress' = p
       /\ ApplyEffect(RunEffect(BarState, p, now))
    /\ lastPushAt' = now
    /\ lastFired' = NoTimer
    /\ UNCHANGED <<now, barMounted>>
    /\ UNCHANGED <<pvars, avars, nvars, evars, svars>>

\* the callback of a pending timeout: setDisplayedProgress(progress);
\* lastUpdateTimeRef.current = Date.now(). On a mounted component a new
\* displayedProgress object makes the effect run again; on an unmounted one the
\* state update is dropped and only the ref is written
TimerFires ==
    \E tm \in timeouts :
        /\ now >= tm.at
        /\ LET s == [BarState EXCEPT !.pending = @ \ {tm}, !.lastUpdate = now] IN
           IF ~barMounted
           THEN ApplyEffect(s)
           ELSE IF tm.value.ref # displayedProgress.ref
           THEN ApplyEffect(RunEffect([s EXCEPT !.displayed = tm.value], barProgress, now))
           ELSE ApplyEffect(s)
        /\ lastFired' = tm.id
        /\ UNCHANGED <<now, barMounted, barProgress, lastPushAt>>
        /\ UNCHANGED <<pvars, avars, nvars, evars, svars>>

\* time passes; a due timeout fires first
Tick ==
    /\ (now - StartTime) \div TickMs < MaxTicks
    /\ \A tm \in timeouts : tm.at > now
    /\ now' = now + TickMs
    /\ lastFired' = NoTimer
    /\ UNCHANGED <<barMounted, barProgress, displayedProgress, lastUpdateTimeRef,
                   updateTimerRef, timeouts, hasCleanup, lastChangeAt, lastPushAt>>
    /\ UNCHANGED <<pvars, avars, nvars, evars, svars>>

\* ActivityBar unmounts: the cleanup of the effect's last run is called
BarUnmount ==
    /\ barMounted
    /\ barMounted' = FALSE
    /\ timeouts' = Cleanup(BarState).pending
    /\ lastFired' = NoTimer
    /\ UNCHANGED <<now, barProgress, displayedProgress, lastUpdateTimeRef,
                   updateTimerRef, hasCleanup, lastChangeAt, lastPushAt>>
    /\ UNCHANGED <<pvars, avars, nvars, evars, svars>>

\* after the first render: progress {} from the provider, displayedProgress {}; the
\* effect's first run (Date.now() - 0 >= MIN_DISPLAY_TIME) has displayed progress,
\* its second run has scheduled the deferred update
DisplayInit ==
    /\ now = StartTime
    /\ barMounted = TRUE
    /\ barProgress = Obj(0, EmptyFeed)
    /\ displayedProgress = Obj(0, EmptyFeed)
    /\ lastUpdateTimeRef = StartTime
    /\ updateTimerRef = 1
    /\ timeouts = {[id |-> 1, at |-> StartTime + MIN_DISPLAY_TIME,
                    value |-> Obj(0, EmptyFeed)]}
    /\ hasCleanup = TRUE
    /\ lastChangeAt = -1
    /\ lastPushAt = -1
    /\ lastFired = NoTimer

----------------------------------------------------------------------------
\* ProgressProvider: subscribers and the notification round

\* the callbacks components pass to subscribe()
Callbacks == {"activityBar", "archiveBrowser", "other"}

\* what a callback does when it is invoked: return, throw, or call the
\* unsubscribe handle of a callback (its own or another one's)
Behaviours ==
    {[kind |-> "return", target |-> "none"], [kind |-> "throw", target |-> "none"]}
        \cup {[kind |-> "unsubscribe", target |-> cb] : cb \in Callbacks}

\* what the callbacks do in one round: at most MaxActing of them do anything but return
RoundBehaviours ==
    {beh \in [Callbacks -> Behaviours] :
        Cardinality({cb \in Callbacks : beh[cb].kind # "return"}) <= MaxActing}

\* position of cb in the Set's insertion order, 0 when it is no element
IndexOf(order, cb) ==
    IF \E k \in 1..Len(order) : order[k] = cb
    THEN CHOOSE k \in 1..Len(order) : order[k] = cb
    ELSE 0

\* Set.prototype.add: a new value goes last, a value already present stays
SetAdd(order, cb) == IF IndexOf(order, cb) = 0 THEN Append(order, cb) ELSE order

\* Set.prototype.delete
SetDelete(order, cb) == SelectSeq(order, LAMBDA x : x # cb)

RECURSIVE ForEachSkipping(_, _, _, _, _, _)
\* an index walk over an array that is spliced while it is walked: the value
\* after a deleted one is skipped
ForEachSkipping(order, pos, beh, invoked, threw, removed) ==
    IF pos > Len(order)
    THEN [order |-> order, invoked |-> invoked, threw |-> threw, removed |-> removed]
    ELSE LET cb == order[pos]
             b == beh[cb]
             at == IF b.kind = "unsubscribe" THEN IndexOf(order, b.target) ELSE 0
         IN ForEachSkipping(IF at > 0 THEN SetDelete(order, b.target) ELSE order,
                            pos + 1,
                            beh,
                            Append(invoked, cb),
                            IF b.kind = "throw" THEN threw \cup {cb} ELSE threw,
                            IF at > 0 THEN removed \cup {b.target} ELSE removed)

RECURSIVE ForEachUncaught(_, _, _, _, _, _)
\* a walk without try/catch: the first throwing callback ends it
ForEachUncaught(order, pos, beh, invoked, threw, removed) ==
    IF pos > Len(order) \/ threw # {}
    THEN [order |-> order, invoked |-> invoked, threw |-> threw, removed |-> removed]
    ELSE LET cb == order[pos]
             b == beh[cb]
             at == IF b.kind = "unsubscribe" THEN IndexOf(order, b.target) ELSE 0
         IN ForEachUncaught(IF at > 0 THEN SetDelete(order, b.target) ELSE order,
                            IF at \in 1..pos THEN pos ELSE pos + 1,
                            beh,
                            Append(invoked, cb),
                            IF b.kind = "throw" THEN threw \cup {cb} ELSE threw,
                            IF at > 0 THEN removed \cup {b.target} ELSE removed)

RECURSIVE ForEach(_, _, _, _, _, _)
\* subscribersRef.current.forEach(callback => { try { callback(current, previous) }
\* catch { console.error } }): the values are visited in insertion order; a value
\* deleted before its turn is not visited; a throwing callback is caught
ForEach(order, pos, beh, invoked, threw, removed) ==
    IF pos > Len(order)
    THEN [order |-> order, invoked |-> invoked, threw |-> threw, removed |-> removed]
    ELSE LET cb == order[pos]
             b == beh[cb]
             at == IF b.kind = "unsubscribe" THEN IndexOf(order, b.target) ELSE 0
         IN ForEach(IF at > 0 THEN SetDelete(order, b.target) ELSE order,
                    IF at \in 1..pos THEN pos ELSE pos + 1,
                    beh,
                    Append(invoked, cb),
                    IF b.kind = "throw" THEN threw \cup {cb} ELSE threw,
                    IF at > 0 THEN removed \cup {b.target} ELSE removed)

\* lastRound when the last step of the subscribers' Set was no notification round
NoRound ==
    [active |-> FALSE, invoked |-> <<>>, threw |-> {}, removed |-> {},
     cur |-> EmptyFeed, prev |-> EmptyFeed]

\* notifySubscribers(current, previous)
NotifySubscribers(cur, prev, beh) ==
    LET r == ForEach(subscribersRef, 1, beh, <<>>, {}, {}) IN
    /\ subscribersRef' = r.order
    /\ lastRound' = [active |-> TRUE, invoked |-> r.invoked, threw |-> r.threw,
                     removed |-> r.removed, cur |-> cur, prev |-> prev]

\* subscribe(callback), called by a component's effect
Subscribe(cb) ==
    /\ IndexOf(subscribersRef, cb) = 0
    /\ subscribersRef' = SetAdd(subscribersRef, cb)
    /\ lastRound' = NoRound
    /\ UNCHANGED <<pvars, avars, dvars, evars, svars>>

\* the handle subscribe() returned, called by the effect's cleanup
Unsubscribe(cb) ==
    /\ IndexOf(subscribersRef, cb) # 0
    /\ subscribersRef' = SetDelete(subscribersRef, cb)
    /\ lastRound' = NoRound
    /\ UNCHANGED <<pvars, avars, dvars, evars, svars>>

\* a long-poll or resync response delivered to the mounted provider, with the
\* notification round spelled out: setProgress, setLoading(false),
\* notifySubscribers, previousProgressRef.current = currentProgress, next long-poll
FetchRound(g, beh) ==
    /\ pc[g] \in {"poll", "resync"}
    /\ StillMounted
    /\ \A cb \in Callbacks : IndexOf(subscribersRef, cb) = 0 => beh[cb].kind = "return"
    /\ DeliverFeed(ServerData)
    /\ NotifySubscribers(NormalizeProgress(ServerData), previousProgressRef, beh)
    /\ pc' = [pc EXCEPT ![g] = "poll"]
    /\ lastOp' = Op(IF pc[g] = "poll" THEN "pollOk" ELSE "resyncOk", g, TRUE, TRUE,
                    NormalizeProgress(ServerData) = previousProgressRef)
    /\ fetchedInMount' = FetchedAfter
    /\ waited' = WaitedAfter
    /\ UNCHANGED <<serverJobs, isMountedRef, mountGen>>
    /\ UNCHANGED <<avars, dvars, evars, svars>>

\* the job the backend runs while the notification rounds are observed
NotifyJobs == {ScanId}

\* every subscribed callback runs to its end
AllReturn == [cb \in Callbacks |-> [kind |-> "return", target |-> cb]]

\* ArchiveBrowser's subscriber, when subscribed, schedules setTimeout(refresh, 0)
\* for the job of the round that completed
ScheduleRefresh(cur, prev) ==
    IF IndexOf(subscribersRef, "archiveBrowser") = 0 \/ CompletionJobs(cur, prev) = {}
    THEN UNCHANGED refreshTimers
    ELSE /\ Cardinality(CompletionJobs(cur, prev)) = 1
         /\ Len(refreshTimers) < MaxTimers
         /\ refreshTimers' = Append(refreshTimers,
                                    CHOOSE j \in CompletionJobs(cur, prev) : TRUE)

\* a store that takes up its next long-poll only when no archive refresh is
\* pending or outstanding
RefreshRoundBlocking(g) ==
    /\ refreshTimers = <<>>
    /\ \A c \in Categories : archiveReqs[c] = <<>>
    /\ pc[g] \in {"poll", "resync"}
    /\ StillMounted
    /\ DeliverFeed(ServerData)
    /\ NotifySubscribers(NormalizeProgress(ServerData), previousProgressRef, AllReturn)
    /\ ScheduleRefresh(NormalizeProgress(ServerData), previousProgressRef)
    /\ pc' = [pc EXCEPT ![g] = "poll"]
    /\ lastOp' = Op(IF pc[g] = "poll" THEN "pollOk" ELSE "resyncOk", g, TRUE, TRUE,
                    NormalizeProgress(ServerData) = previousProgressRef)
    /\ fetchedInMount' = FetchedAfter
    /\ waited' = WaitedAfter
    /\ UNCHANGED <<serverJobs, isMountedRef, mountGen>>
    /\ UNCHANGED <<activeTab, items, browserLoading, hasMore, currentPage, fetchingRef,
                   archiveReqs, isClearing, requested, issuedCount, exhausted>>
    /\ UNCHANGED <<dvars, evars, svars>>

\* a long-poll or resync response delivered to the mounted provider while the
\* components' subscribers are the callbacks: the round runs ArchiveBrowser's
\* subscriber, which only schedules the refresh, and the next long-poll is issued
RefreshRound(g) ==
    /\ pc[g] \in {"poll", "resync"}
    /\ StillMounted
    /\ DeliverFeed(ServerData)
    /\ NotifySubscribers(NormalizeProgress(ServerData), previousProgressRef, AllReturn)
    /\ ScheduleRefresh(NormalizeProgress(ServerData), previousProgressRef)
    /\ pc' = [pc EXCEPT ![g] = "poll"]
    /\ lastOp' = Op(IF pc[g] = "poll" THEN "pollOk" ELSE "resyncOk", g, TRUE, TRUE,
                    NormalizeProgress(ServerData) = previousProgressRef)
    /\ fetchedInMount' = FetchedAfter
    /\ waited' = WaitedAfter
    /\ UNCHANGED <<serverJobs, isMountedRef, mountGen>>
    /\ UNCHANGED <<activeTab, items, browserLoading, hasMore, currentPage, fetchingRef,
                   archiveReqs, isClearing, requested, issuedCount, exhausted>>
    /\ UNCHANGED <<dvars, evars, svars>>

\* the backend drops a finished job from its feed
ServerForget(j) ==
    /\ serverJobs[j] \in Terminal
    /\ completionEvents[j] < MaxRuns
    /\ serverJobs' = [serverJobs EXCEPT ![j] = "absent"]
    /\ lastOp' = [op |-> "server", gen |-> mountGen, dead |-> FALSE,
                  issued |-> FALSE, notified |-> FALSE, unchanged |-> FALSE]
    /\ UNCHANGED <<progress, loading, previousProgressRef, isMountedRef, mountGen, pc,
                   completionEvents, seenRunning, fetchedInMount, waited>>
    /\ UNCHANGED <<avars, dvars, nvars, evars, svars>>

NotifyInit ==
    /\ subscribersRef = <<>>
    /\ lastRound = NoRound

----------------------------------------------------------------------------
\* The progress subscribers of ActivityBar and ArchiveBrowser as functions of
\* (currentProgress, previousProgress)

EventJobs == BackendJobs

\* job.errors: the documents that failed so far, by document id, oldest first
ErrorLists ==
    {e \in UNION {[1..n -> 1..MaxErrors] : n \in 0..MaxErrors} :
        \A k \in 1..(Len(e) - 1) : e[k] < e[k + 1]}

\* a ProgressResponse of one job: its status and its optional errors array;
\* NoJob stands for a job id the feed has no entry for
NoJob == [status |-> "absent", defined |-> FALSE, errors |-> <<>>]
Snapshots ==
    {NoJob}
        \cup [status : Status \ {"absent"}, defined : {FALSE}, errors : {<<>>}]
        \cup [status : Status \ {"absent"}, defined : {TRUE}, errors : ErrorLists]
RichFeeds == [EventJobs -> Snapshots]
NoJobs == [j \in EventJobs |-> NoJob]

\* Object.entries(currentProgress): the job ids the forEach visits
Entries(feed) == {j \in EventJobs : feed[j] # NoJob}

\* the statuses of a feed, as previousJob?.status and job.status read them
StatusOf(feed) == [j \in JobIds |-> IF j \in EventJobs THEN feed[j].status ELSE "absent"]

\* a subscriber that reports every failed job, whatever it was before
JobFailedAny(job, previousJob) == job.status = "failed"

\* previousJob?.status === 'running' && job.status === 'failed'
JobFailed(job, previousJob) == previousJob.status = "running" /\ job.status = "failed"

\* previousJob?.errors?.length || 0
PreviousErrorCount(previousJob) ==
    IF previousJob.defined THEN Len(previousJob.errors) ELSE 0

\* job.status === 'running' && job.errors && job.errors.length > 0, and
\* job.errors.length > previousErrorCount
HasNewErrors(job, previousJob) ==
    /\ job.status = "running"
    /\ job.defined
    /\ Len(job.errors) > 0
    /\ Len(job.errors) > PreviousErrorCount(previousJob)

\* job.errors.slice(previousErrorCount)
NewErrors(job, previousJob) ==
    SubSeq(job.errors, PreviousErrorCount(previousJob) + 1, Len(job.errors))

\* newErrors[newErrors.length - 1], the one error the toast text is built from
LatestError(job, previousJob) ==
    LET newErrors == NewErrors(job, previousJob) IN <<newErrors[Len(newErrors)]>>

\* the errors a toast tells the user about: none for a failure toast
Toast(by, kind, j, errors) == [by |-> by, kind |-> kind, job |-> j, errors |-> errors]

\* ActivityBar's subscriber: a failure toast and a new-error toast per job
ActivityBarToasts(cur, prev) ==
    {Toast("activityBar", "failure", j, <<>>) :
        j \in {k \in Entries(cur) : JobFailed(cur[k], prev[k])}}
    \cup {Toast("activityBar", "newError", j, LatestError(cur[j], prev[j])) :
            j \in {k \in Entries(cur) : HasNewErrors(cur[k], prev[k])}}

\* ArchiveBrowser's subscriber: its failure toast
ArchiveBrowserToasts(cur, prev) ==
    {Toast("archiveBrowser", "failure", j, <<>>) :
        j \in {k \in Entries(cur) : JobFailed(cur[k], prev[k])}}

\* ArchiveBrowser's subscriber: the jobs it schedules the refresh callback for
ArchiveRefreshes(cur, prev) == CompletionJobs(StatusOf(cur), StatusOf(prev))

\* both subscribers are called with (cur, prev)
CallSubscribers(cur, prev) ==
    /\ toasts' = ActivityBarToasts(cur, prev) \cup ArchiveBrowserToasts(cur, prev)
    /\ refreshes' = ArchiveRefreshes(cur, prev)
    /\ rounds' = rounds + 1

\* notifySubscribers(currentProgress, previousProgress) on the pair held
SubscribersCalled ==
    /\ rounds < MaxRounds
    /\ CallSubscribers(currentProgress, previousProgress)
    /\ UNCHANGED <<currentProgress, previousProgress>>
    /\ UNCHANGED <<pvars, avars, dvars, nvars, svars>>

\* the store has moved previous on to the feed it delivered, and the next fetch
\* answers the same feed: the subscribers are called with (feed, feed)
SameFeedAgain ==
    /\ rounds < MaxRounds
    /\ previousProgress' = currentProgress
    /\ CallSubscribers(currentProgress, currentProgress)
    /\ UNCHANGED currentProgress
    /\ UNCHANGED <<pvars, avars, dvars, nvars, svars>>

EventsIdle ==
    /\ toasts = {}
    /\ refreshes = {}
    /\ rounds = 0

EventsInit ==
    /\ currentProgress = NoJobs
    /\ previousProgress = NoJobs
    /\ EventsIdle

\* every pair of feeds the subscribers can be called with
EventsStart ==
    /\ currentProgress \in RichFeeds
    /\ previousProgress \in RichFeeds
    /\ EventsIdle

----------------------------------------------------------------------------
\* The job type of a job id: ActivityBar's label and ArchiveBrowser's dispatch

\* the id of a scan job as the backend issues it (a UUID; its first characters)
UuidId == <<"3", "f", "a", "8">>

\* job ids: the ids of the feeds above, UUIDs, and ids that share a prefix with them
IdPrefixes ==
    {<<>>, IndexId, <<"s", "c", "a", "n">>, <<"p", "r", "o", "c">>,
     <<"p", "r", "o", "c", "e", "s", "s", "-">>, UuidId}
IdSuffixes == {<<>>, <<"-">>, <<"1">>, <<"-", "1">>, <<"7">>}
DispatchIds == {p \o x : p \in IdPrefixes, x \in IdSuffixes} \ {<<>>}

\* ActivityBar.getJobType
GetJobType(id) ==
    IF id = IndexId THEN "Index"
    ELSE IF StartsWith(id, <<"p", "r", "o", "c", "e", "s", "s", "-">>) THEN "Process"
    ELSE "Scan"

\* ActivityBar renders the badge of the job: getJobType(jobId)
LabelJob ==
    /\ jobType = ""
    /\ jobType' = GetJobType(jobId)
    /\ UNCHANGED <<jobId, completionSeen, refreshedCats>>
    /\ UNCHANGED <<pvars, avars, dvars, nvars, evars>>
    /\ UNCHANGED <<fvars, wvars, gvars>>

\* ArchiveBrowser's refresh callback for the completed job runs: the categories it
\* calls fetchArchive(c, 1, false, true) for
DispatchJob ==
    /\ ~completionSeen
    /\ completionSeen' = TRUE
    /\ refreshedCats' = RefreshCategories(jobId)
    /\ UNCHANGED <<jobId, jobType>>
    /\ UNCHANGED <<pvars, avars, dvars, nvars, evars>>
    /\ UNCHANGED <<fvars, wvars, gvars>>

JobTypeIdle ==
    /\ jobType = ""
    /\ completionSeen = FALSE
    /\ refreshedCats = <<>>

JobTypeInit ==
    /\ jobId = IndexId
    /\ JobTypeIdle

\* every job id the two components can be given
JobTypeStart ==
    /\ jobId \in DispatchIds
    /\ JobTypeIdle

----------------------------------------------------------------------------
\* The process-document form of DocumentProcessor and FloatingActionButton

MaxLen == 3

Forms == {"DocumentProcessor", "FloatingActionButton"}

\* the characters of the input field
InputChars == {" ", "-", "+", "0", "1", "7", "a", "x", "."}
Inputs == UNION {[1..n -> InputChars] : n \in 0..MaxLen}

WhiteSpace == {" "}

RECURSIVE TrimStart(_)
TrimStart(str) ==
    IF str # <<>> /\ Head(str) \in WhiteSpace THEN TrimStart(Tail(str)) ELSE str

RECURSIVE TrimEnd(_)
TrimEnd(str) ==
    IF str # <<>> /\ str[Len(str)] \in WhiteSpace
    THEN TrimEnd(SubSeq(str, 1, Len(str) - 1)) ELSE str

\* String.prototype.trim
Trim(str) == TrimEnd(TrimStart(str))

\* the value of a character as a digit
DigitValue == [c \in {"0", "1", "7", "a"} |->
                  IF c = "0" THEN 0 ELSE IF c = "1" THEN 1 ELSE IF c = "7" THEN 7 ELSE 10]

IsDigit(c, radix) == c \in DOMAIN DigitValue /\ DigitValue[c] < radix

RECURSIVE DigitPrefix(_, _)
\* the longest prefix of str made of digits of the radix
DigitPrefix(str, radix) ==
    IF str # <<>> /\ IsDigit(Head(str), radix)
    THEN <<Head(str)>> \o DigitPrefix(Tail(str), radix) ELSE <<>>

RECURSIVE DigitsValue(_, _)
DigitsValue(digits, radix) ==
    IF digits = <<>> THEN 0
    ELSE DigitsValue(SubSeq(digits, 1, Len(digits) - 1), radix) * radix
             + DigitValue[digits[Len(digits)]]

NaN == [nan |-> TRUE, value |-> 0]

\* parseInt(str) without a radix: leading white space skipped, an optional sign,
\* the prefix 0x selecting radix 16, then the longest run of digits; NaN when
\* that run is empty
ParseInt(str) ==
    LET s1 == TrimStart(str)
        signed == s1 # <<>> /\ Head(s1) \in {"+", "-"}
        sign == IF s1 # <<>> /\ Head(s1) = "-" THEN -1 ELSE 1
        s2 == IF signed THEN Tail(s1) ELSE s1
        hex == Len(s2) >= 2 /\ s2[1] = "0" /\ s2[2] = "x"
        s3 == IF hex THEN Tail(Tail(s2)) ELSE s2
        radix == IF hex THEN 16 ELSE 10
        z == DigitPrefix(s3, radix)
    IN IF z = <<>> THEN NaN ELSE [nan |-> FALSE, value |-> sign * DigitsValue(z, radix)]

\* a validation that rejects only what is not a number
RejectedOnlyNaN(id) == id.nan

\* isNaN(id) || id <= 0
Rejected(id) == id.nan \/ id.value <= 0

NoMessage == [type |-> "none", text |-> ""]
ValidationError ==
    [type |-> "error", text |-> "Please enter a valid document ID (positive number)"]
NoRequest == [document_ids |-> <<>>]

\* handleSubmit / handleProcessSubmit up to the await of processDocument(id); the
\* field and the submit button are disabled while loading
Submit ==
    /\ ~formLoading
    /\ formOp' = "submit"
    /\ LET id == ParseInt(Trim(documentId)) IN
       IF Rejected(id)
       THEN /\ message' = ValidationError
            /\ UNCHANGED <<formLoading, processRequest>>
       ELSE /\ formLoading' = TRUE
            /\ message' = NoMessage
            /\ processRequest' = [document_ids |-> <<id.value>>]
    /\ UNCHANGED <<form, documentId, modalOpen, messageTimer>>
    /\ UNCHANGED <<pvars, avars, dvars, nvars, evars>>
    /\ UNCHANGED <<jvars, wvars, gvars>>

\* DocumentProcessor.handleSubmit
HandleSubmit == form = "DocumentProcessor" /\ Submit

\* FloatingActionButton.handleProcessSubmit
HandleProcessSubmit == form = "FloatingActionButton" /\ Submit

\* the handler after the await: the document was queued
ProcessOk ==
    /\ processRequest # NoRequest
    /\ processRequest' = NoRequest
    /\ formOp' = "ok"
    /\ message' = [type |-> "success", text |-> "queued"]
    /\ documentId' = <<>>
    /\ messageTimer' = TRUE
    /\ modalOpen' = IF form = "FloatingActionButton" THEN FALSE ELSE modalOpen
    /\ formLoading' = FALSE
    /\ UNCHANGED form
    /\ UNCHANGED <<pvars, avars, dvars, nvars, evars>>
    /\ UNCHANGED <<jvars, wvars, gvars>>

\* the handler after the await: processDocument threw
ProcessFail ==
    /\ processRequest # NoRequest
    /\ processRequest' = NoRequest
    /\ formOp' = "fail"
    /\ message' = [type |-> "error", text |-> "Failed to process document"]
    /\ formLoading' = FALSE
    /\ UNCHANGED <<form, documentId, modalOpen, messageTimer>>
    /\ UNCHANGED <<pvars, avars, dvars, nvars, evars>>
    /\ UNCHANGED <<jvars, wvars, gvars>>

\* the setTimeout callback armed after a success: 2000 ms later DocumentProcessor
\* closes its dialog and clears the message, 3000 ms later FloatingActionButton
\* clears the message
MessageTimerFires ==
    /\ messageTimer
    /\ messageTimer' = FALSE
    /\ formOp' = "timer"
    /\ message' = NoMessage
    /\ modalOpen' = IF form = "DocumentProcessor" THEN FALSE ELSE modalOpen
    /\ UNCHANGED <<form, documentId, formLoading, processRequest>>
    /\ UNCHANGED <<pvars, avars, dvars, nvars, evars>>
    /\ UNCHANGED <<jvars, wvars, gvars>>

FormIdle ==
    /\ formLoading = FALSE
    /\ message = NoMessage
    /\ modalOpen = TRUE
    /\ messageTimer = FALSE
    /\ processRequest = NoRequest
    /\ formOp = "open"

FormInit ==
    /\ form = "DocumentProcessor"
    /\ documentId = <<>>
    /\ FormIdle

\* the dialog of either component, open with any text typed into the field
FormStart ==
    /\ form \in Forms
    /\ documentId \in Inputs
    /\ FormIdle

----------------------------------------------------------------------------
\* ProgressView: a polling loop of its own, with its own loading and error state

\* the feeds /progress answers ProgressView with
ViewFeeds == {f \in Feed : f[ProcessId] = "absent"}

NoError == <<>>

ViewOp(name, applied) == [op |-> name, applied |-> applied]

\* the long-poll answered: setProgress, setError(null), setLoading(false), next poll
ViewPollOk(f) ==
    /\ viewPc = "poll"
    /\ IF viewMounted
       THEN /\ viewProgress' = f
            /\ viewError' = NoError
            /\ viewLoading' = FALSE
            /\ viewPc' = "poll"
       ELSE /\ viewPc' = "done"
            /\ UNCHANGED <<viewProgress, viewError, viewLoading>>
    /\ viewOp' = ViewOp("pollOk", viewMounted)
    /\ UNCHANGED viewMounted
    /\ UNCHANGED <<pvars, avars, dvars, nvars, evars>>
    /\ UNCHANGED <<jvars, fvars, gvars>>

\* the long-poll timed out: resync with getProgress()
ViewPollTimeout ==
    /\ viewPc = "poll"
    /\ viewPc' = IF viewMounted THEN "resync" ELSE "done"
    /\ viewOp' = ViewOp("pollTimeout", viewMounted)
    /\ UNCHANGED <<viewMounted, viewProgress, viewError, viewLoading>>
    /\ UNCHANGED <<pvars, avars, dvars, nvars, evars>>
    /\ UNCHANGED <<jvars, fvars, gvars>>

\* the long-poll failed otherwise: setError(err.response?.data?.detail ||
\* err.message || ...), setLoading(false), retry in 5000 ms
ViewPollError(err) ==
    /\ viewPc = "poll"
    /\ IF viewMounted
       THEN /\ viewError' = err.message
            /\ viewLoading' = FALSE
            /\ viewPc' = "timer5s"
       ELSE /\ viewPc' = "done"
            /\ UNCHANGED <<viewError, viewLoading>>
    /\ viewOp' = ViewOp("pollError", viewMounted)
    /\ UNCHANGED <<viewMounted, viewProgress>>
    /\ UNCHANGED <<pvars, avars, dvars, nvars, evars>>
    /\ UNCHANGED <<jvars, fvars, gvars>>

\* the catch block of ProgressView's long-poll, entered with err
ViewPollFail(err) == IF IsTimeout(err) THEN ViewPollTimeout ELSE ViewPollError(err)

\* the resync after a timeout answered: setProgress, next poll
ViewResyncOk(f) ==
    /\ viewPc = "resync"
    /\ IF viewMounted
       THEN /\ viewProgress' = f
            /\ viewPc' = "poll"
       ELSE /\ viewPc' = "done"
            /\ UNCHANGED viewProgress
    /\ viewOp' = ViewOp("resyncOk", viewMounted)
    /\ UNCHANGED <<viewMounted, viewError, viewLoading>>
    /\ UNCHANGED <<pvars, avars, dvars, nvars, evars>>
    /\ UNCHANGED <<jvars, fvars, gvars>>

\* the resync failed: retry in 2000 ms
ViewResyncFail ==
    /\ viewPc = "resync"
    /\ viewPc' = IF viewMounted THEN "timer2s" ELSE "done"
    /\ viewOp' = ViewOp("resyncFail", viewMounted)
    /\ UNCHANGED <<viewMounted, viewProgress, viewError, viewLoading>>
    /\ UNCHANGED <<pvars, avars, dvars, nvars, evars>>
    /\ UNCHANGED <<jvars, fvars, gvars>>

\* the retry timers: the 2000 ms callback polls whatever isMounted is, the
\* 5000 ms callback only when isMounted
ViewRetryTimer ==
    /\ viewPc \in {"timer2s", "timer5s"}
    /\ viewPc' = IF viewPc = "timer2s" \/ viewMounted THEN "poll" ELSE "done"
    /\ viewOp' = ViewOp("retryTimer", viewMounted)
    /\ UNCHANGED <<viewMounted, viewProgress, viewError, viewLoading>>
    /\ UNCHANGED <<pvars, avars, dvars, nvars, evars>>
    /\ UNCHANGED <<jvars, fvars, gvars>>

\* the effect's cleanup: isMounted = false
ViewUnmount ==
    /\ viewMounted
    /\ viewMounted' = FALSE
    /\ viewOp' = ViewOp("unmount", TRUE)
    /\ UNCHANGED <<viewPc, viewProgress, viewError, viewLoading>>
    /\ UNCHANGED <<pvars, avars, dvars, nvars, evars>>
    /\ UNCHANGED <<jvars, fvars, gvars>>

\* ProgressView after its first render and its effect: the first long-poll is out
ViewInit ==
    /\ viewMounted = TRUE
    /\ viewPc = "poll"
    /\ viewProgress = EmptyFeed
    /\ viewLoading = TRUE
    /\ viewError = NoError
    /\ viewOp = ViewOp("mount", TRUE)

----------------------------------------------------------------------------
\* apiService.getProgress: the query parameters and the client-side timeout

MaxTimeout == 60

\* the 5 s added to the server's timeout
TimeoutBuffer == 5

\* axios.create sets no timeout: the instance default, 0, means none
NoTimeout == 0

\* the job ids getProgress is called with; <<>> for undefined
CallJobIds == {<<>>, IndexId, UuidId}

Calls == [jobId : CallJobIds, wait : BOOLEAN, timeout : 0..MaxTimeout]

DecimalDigits == <<"0", "1", "2", "3", "4", "5", "6", "7", "8", "9">>

RECURSIVE NumberToString(_)
\* timeout.toString(): Number.prototype.toString of a natural number
NumberToString(n) ==
    IF n < 10 THEN <<DecimalDigits[n + 1]>>
    ELSE NumberToString(n \div 10) \o <<DecimalDigits[(n % 10) + 1]>>

\* the entries of params with the keys of keys
Params(all, keys) == [k \in keys |-> all[k]]

\* params: job_id when jobId is truthy, wait and timeout when wait is true
QueryParams(c) ==
    Params([job_id |-> c.jobId, wait |-> <<"t", "r", "u", "e">>,
            timeout |-> NumberToString(c.timeout)],
           (IF c.jobId # <<>> THEN {"job_id"} ELSE {})
               \cup (IF c.wait THEN {"wait", "timeout"} ELSE {}))

\* a client-side timeout equal to the server's
ClientTimeoutNoBuffer(c) == IF c.wait THEN c.timeout * 1000 ELSE NoTimeout

\* timeout: wait ? (timeout + 5) * 1000 : undefined, merged with the instance default
ClientTimeout(c) == IF c.wait THEN (c.timeout + TimeoutBuffer) * 1000 ELSE NoTimeout

\* api.get('/progress', { params, timeout })
GetProgress ==
    /\ request = <<>>
    /\ request' = <<[url |-> "/progress", params |-> QueryParams(call),
                     timeout |-> ClientTimeout(call)]>>
    /\ UNCHANGED call
    /\ UNCHANGED <<pvars, avars, dvars, nvars, evars>>
    /\ UNCHANGED <<jvars, fvars, wvars>>

\* fetchInitialState's call: getProgress(undefined, false)
RequestInit ==
    /\ call = [jobId |-> <<>>, wait |-> FALSE, timeout |-> MaxTimeout]
    /\ request = <<>>

\* every call of getProgress
RequestStart ==
    /\ call \in Calls
    /\ request = <<>>

----------------------------------------------------------------------------
\* Specifications: one per component, the other components idle

ComponentsInit ==
    ProgressInit /\ ArchiveInit /\ DisplayInit /\ NotifyInit /\ EventsInit

StandaloneInit == JobTypeInit /\ FormInit /\ ViewInit /\ RequestInit

Init ==
    ProgressInit /\ ArchiveInit /\ DisplayInit /\ NotifyInit /\ EventsInit
        /\ StandaloneInit

InitEvents ==
    ProgressInit /\ ArchiveInit /\ DisplayInit /\ NotifyInit /\ EventsStart
        /\ StandaloneInit

InitJobType == ComponentsInit /\ JobTypeStart /\ FormInit /\ ViewInit /\ RequestInit

InitSubmit == ComponentsInit /\ JobTypeInit /\ FormStart /\ ViewInit /\ RequestInit

InitGetProgress == ComponentsInit /\ JobTypeInit /\ FormInit /\ ViewInit /\ RequestStart

ProgressNext ==
    \/ Mount
    \/ Unmount
    \/ \E g \in Gens : InitialOk(g)
    \/ \E g \in Gens : InitialFail(g)
    \/ \E g \in Gens : InitialRetryTimer(g)
    \/ \E g \in Gens : PollOk(g)
    \/ \E g \in Gens : \E err \in Errors : PollFail(g, err)
    \/ \E g \in Gens : ResyncOk(g)
    \/ \E g \in Gens : ResyncFail(g)
    \/ \E g \in Gens : RetryTimer(g)
    \/ Elapse
    \/ \E j \in BackendJobs : ServerStep(j)

ArchiveNext ==
    \/ \E t \in Tabs : TabChange(t)
    \/ ScrollTrigger
    \/ \E c \in Categories : \E i \in 1..MaxRequests : \E more \in BOOLEAN :
           ArchiveOk(c, i, more)
    \/ \E c \in Categories : \E i \in 1..MaxRequests : ArchiveFail(c, i)
    \/ \E j \in JobIds : \E st \in Status : \E pst \in Status :
           SubscriberNotified(JobFeed(j, st), JobFeed(j, pst))
    \/ RefreshTimer
    \/ ConfirmClear
    \/ ClearOk
    \/ ClearFail

DisplayNext ==
    \/ \E f \in DisplayFeeds : PushFeed(f)
    \/ TimerFires
    \/ Tick
    \/ BarUnmount

NotifyNext ==
    \/ \E cb \in Callbacks : Subscribe(cb)
    \/ \E cb \in Callbacks : Unsubscribe(cb)
    \/ InitialOk(1)
    \/ PollTimeout(1)
    \/ \E beh \in RoundBehaviours : FetchRound(1, beh)
    \/ \E j \in NotifyJobs : ServerStep(j)

\* the store alone, with a backend that also drops finished jobs from its feed
StoreNext ==
    \/ InitialOk(1)
    \/ InitialFail(1)
    \/ InitialRetryTimer(1)
    \/ PollOk(1)
    \/ PollTimeout(1)
    \/ ResyncOk(1)
    \/ \E j \in BackendJobs : ServerStep(j)
    \/ \E j \in BackendJobs : ServerForget(j)

EventsNext ==
    \/ SubscribersCalled
    \/ SameFeedAgain

\* the store, its subscribers and the archive requests the refresh callbacks issue
RefreshNext ==
    \/ \E cb \in Callbacks : Subscribe(cb)
    \/ InitialOk(1)
    \/ PollTimeout(1)
    \/ RefreshRound(1)
    \/ \E j \in NotifyJobs : ServerStep(j)
    \/ RefreshTimer
    \/ \E c \in Categories : \E i \in 1..MaxRequests : \E more \in BOOLEAN :
           ArchiveOk(c, i, more)
    \/ \E c \in Categories : \E i \in 1..MaxRequests : ArchiveFail(c, i)

JobTypeNext ==
    \/ LabelJob
    \/ DispatchJob

SpecProgress == Init /\ [][ProgressNext]_vars
SpecJobType == InitJobType /\ [][JobTypeNext]_vars

SubmitNext ==
    \/ HandleSubmit
    \/ HandleProcessSubmit
    \/ ProcessOk
    \/ ProcessFail
    \/ MessageTimerFires

SpecSubmit == InitSubmit /\ [][SubmitNext]_vars

ViewNext ==
    \/ \E f \in ViewFeeds : ViewPollOk(f)
    \/ \E err \in Errors : ViewPollFail(err)
    \/ \E f \in ViewFeeds : ViewResyncOk(f)
    \/ ViewResyncFail
    \/ ViewRetryTimer
    \/ ViewUnmount

SpecView == Init /\ [][ViewNext]_vars

GetProgressNext == GetProgress

SpecGetProgress == InitGetProgress /\ [][GetProgressNext]_vars
SpecRefresh == Init /\ [][RefreshNext]_vars

\* time passes and an armed setTimeout callback runs once it is due: the browser's
\* timer queue is not starved
TimersFire ==
    /\ \A g \in Gens : WF_vars(RetryTimer(g)) /\ WF_vars(InitialRetryTimer(g))
    /\ WF_vars(Elapse)

SpecProgressLive == Init /\ [][ProgressNext]_vars /\ TimersFire
SpecArchive == Init /\ [][ArchiveNext]_vars
SpecDisplay == Init /\ [][DisplayNext]_vars
SpecNotify == Init /\ [][NotifyNext]_vars
SpecStore == Init /\ [][StoreNext]_vars
SpecEvents == InitEvents /\ [][EventsNext]_vars

----------------------------------------------------------------------------
\* Claims about ProgressProvider (checked under SpecProgress)

\* C1: in every reachable state at most one /progress request issued by the
\* provider is outstanding, whatever the interleaving of mount, unmount, re-mount,
\* responses, timeouts, errors and retry timers.
C1_AtMostOneProgressRequest == Cardinality(Outstanding) <= 1

ResponseOps == {"initialOk", "initialFail", "pollOk", "pollTimeout", "pollError",
                "resyncOk", "resyncFail"}

\* C6: a job the store has held as running and now holds with a terminal status
\* has produced exactly one completion event, and no job ever produces a second
\* one, re-deliveries of an unchanged feed after a timeout resync included.
C6_ExactlyOneCompletionEvent ==
    \A j \in JobIds :
        /\ completionEvents[j] <= 1
        /\ (seenRunning[j] /\ previousProgressRef[j] \in Terminal)
               => completionEvents[j] = 1

\* C8: a /progress response handled after the effect run that issued the request
\* was cleaned up changes none of progress, loading and previous and invokes no
\* subscriber, also when the provider has been mounted again in between.
C8_LateResponseDiscarded ==
    [][(lastOp'.op \in ResponseOps /\ lastOp'.dead)
          => (UNCHANGED <<progress, loading, previousProgressRef>>
              /\ ~lastOp'.notified)]_vars

\* C9: after the provider is unmounted the poll loop of that mount issues no
\* further /progress request, the 2 s and 5 s retry timers included.
C9_NoRequestAfterUnmount == ~(lastOp.issued /\ lastOp.dead)

\* the failures the claim calls a timeout
C14_TimeoutErrors ==
    {e \in Errors : e.code = "ECONNABORTED" \/ Includes(e.message, "timeout")
                        \/ e.status = 408}

\* C14: when a long-poll fails with a timeout (ECONNABORTED, a message containing
\* 'timeout', HTTP 408) while the provider is mounted, the loop's next request is
\* the non-waiting resync, issued in the same step (no timer in between), and when
\* that resync succeeds the loop's next request is a long-poll again.
C14_TimeoutResyncsAtOnce ==
    [][\A g \in Gens :
          /\ (pc[g] = "poll" /\ isMountedRef)
                 => \A e \in C14_TimeoutErrors : PollFail(g, e) => pc'[g] = "resync"
          /\ (pc[g] = "resync" /\ lastOp'.op = "resyncOk" /\ lastOp'.gen = g
                 /\ isMountedRef) => pc'[g] = "poll"]_vars

C14_Witness ==
    /\ lastOp.op = "resyncOk"
    /\ lastOp.issued
    /\ isMountedRef
    /\ pc[lastOp.gen] = "poll"

\* loop g has handled the end of one of its requests while the provider is mounted
C15_RequestCompleted(g) ==
    lastOp.op \in ResponseOps /\ lastOp.gen = g /\ isMountedRef

\* C15: while the provider stays mounted, every completed /progress request of a
\* loop (initial fetch, long-poll or resync; answered, timed out or failed) is
\* eventually followed by another /progress request of that loop.
C15_PollerNeverStops ==
    \A g \in Gens :
        C15_RequestCompleted(g) ~> ((lastOp.issued /\ lastOp.gen = g) \/ ~isMountedRef)

C15_Witness ==
    /\ lastOp.op \in {"retryTimer", "initialRetry"}
    /\ lastOp.issued
    /\ isMountedRef
    /\ pc[lastOp.gen] \in RequestPcs

\* the step issues a long-poll (wait=true) request while the provider is mounted
C16_LongPollIssued ==
    /\ lastOp'.op \in {"initialOk", "pollOk", "resyncOk", "retryTimer"}
    /\ lastOp'.issued
    /\ pc'[lastOp'.gen] = "poll"
    /\ isMountedRef'

\* C16: within one mount no long-poll request is issued before a non-waiting fetch
\* has succeeded in that mount, and the retry of a failed initial fetch is a
\* non-waiting fetch again.
C16_NonWaitingFetchFirst ==
    [][/\ C16_LongPollIssued => fetchedInMount'
       /\ \A g \in Gens : (pc[g] = "timerInit" /\ pc'[g] # pc[g])
                               => pc'[g] \in {"initial", "done"}]_vars

\* C17: when the non-waiting fetch of fetchInitialState succeeds while the provider
\* is mounted, the same step sets loading to false and current to the fetched feed;
\* the long-poll it starts is only issued there, not awaited.
C17_InitialFetchSetsStore ==
    [][\A g \in Gens :
          (pc[g] = "initial" /\ lastOp'.op = "initialOk" /\ lastOp'.gen = g
              /\ isMountedRef)
              => /\ loading' = FALSE
                 /\ progress' = serverJobs
                 /\ pc'[g] = "poll"]_vars

C17_Witness ==
    /\ lastOp.op = "initialOk"
    /\ lastOp.issued
    /\ pc[lastOp.gen] = "poll"
    /\ ~loading
    /\ progress = serverJobs
    /\ progress # EmptyFeed

\* the step applies a successful /progress fetch to the store
C19_FetchApplied ==
    lastOp'.op \in {"initialOk", "pollOk", "resyncOk"} /\ lastOp'.issued

\* C19 (checked under SpecStore): after every successful /progress fetch the
\* current feed is exactly the fetched feed; a job of the prior feed that the
\* response leaves out is absent from current, and every snapshot is the response's.
C19_FeedReplacedWholesale ==
    [][C19_FetchApplied
          => /\ progress' = serverJobs
             /\ \A j \in JobIds : serverJobs[j] = "absent" => progress'[j] = "absent"]_vars

\* a fetch has just emptied a feed that held a running job
C19_Witness ==
    /\ lastOp.op \in {"pollOk", "resyncOk"}
    /\ lastOp.issued
    /\ ~lastOp.unchanged
    /\ progress = EmptyFeed
    /\ \E j \in JobIds : seenRunning[j]

\* C35: loading, true at construction and never set back to true, is true in every
\* state in which no /progress fetch has yet succeeded: it becomes false only in
\* a step in which a fetch succeeds, not when the initial non-waiting fetch fails.
C35_LoadingUntilFirstSuccess ==
    [][(loading /\ ~loading') => lastOp'.op \in {"initialOk", "pollOk", "resyncOk"}]_vars

\* a step in which the pending retry timer of loop g, armed at position p, fires
C38_TimerFires(g, p) == pc[g] = p /\ pc'[g] # p

\* C38: the timer armed after a failed resync fires, and the loop issues its next
\* request, a long-poll, no sooner than 2000 ms after it was armed; the timer
\* armed after a long-poll failure that is no timeout, no sooner than 5000 ms;
\* both are armed with no time waited and are due at these delays however many
\* failures came before, and the time waited advances only as time passes.
C38_FixedRetryDelays ==
    [][\A g \in Gens :
          /\ (pc[g] = "resync" /\ pc'[g] = "timer2s") => waited'[g] = 0
          /\ (pc[g] = "poll" /\ pc'[g] = "timer5s") => waited'[g] = 0
          /\ C38_TimerFires(g, "timer2s")
                => (waited[g] >= 2000 /\ pc'[g] = "poll" /\ lastOp'.issued)
          /\ C38_TimerFires(g, "timer5s")
                => (waited[g] >= 5000 /\ pc'[g] = "poll" /\ lastOp'.issued)
          /\ (pc[g] = "timer2s" /\ waited[g] >= 2000) => ENABLED RetryTimer(g)
          /\ (pc[g] = "timer5s" /\ waited[g] >= 5000) => ENABLED RetryTimer(g)
          /\ waited'[g] > waited[g]
                => (lastOp'.op = "elapse" /\ waited'[g] = waited[g] + ElapseMs)]_vars

\* the 5000 ms timer of a loop has just fired, a second loop's 2000 ms timer is
\* due, and the provider is mounted
C38_Witness ==
    /\ lastOp.op = "retryTimer"
    /\ lastOp.issued
    /\ pc[lastOp.gen] = "poll"
    /\ \E g \in Gens : pc[g] = "timer2s" /\ waited[g] = 2000

----------------------------------------------------------------------------
\* Claims about ArchiveBrowser (checked under SpecArchive)

\* C2: in every reachable state at most one /archive request per category is
\* outstanding; a trigger arriving while one is outstanding issues no second
\* request, also after a tab switch.
C2_AtMostOneArchiveRequest == \A c \in Categories : Len(archiveReqs[c]) <= 1

\* C3: for each category the pages requested between one reset and the next are
\* 1, 2, 3, ... with no page repeated and none skipped.
C3_PagesConsecutive ==
    \A c \in Categories : \A k \in DOMAIN requested[c] : requested[c][k] = k

\* a step in which the i-th outstanding request of category c fails: it leaves the
\* queue and, being an appending request, would have lengthened items had it succeeded
ScrollFetchFails(c, i) ==
    /\ i \in DOMAIN archiveReqs[c]
    /\ archiveReqs[c][i].append
    /\ archiveReqs'[c] = RemoveAt(archiveReqs[c], i)
    /\ items'[c] = items[c]

\* C4: when a scroll-triggered fetch of page p for category c fails, the page
\* counter of c is what it was before the fetch was triggered (p - 1, so that the
\* next scroll requests p again) and hasMore[c] is still true.
C4_FailureKeepsPageCounter ==
    [][\A c \in Categories : \A i \in 1..MaxRequests :
          ScrollFetchFails(c, i)
              => (currentPage'[c] = archiveReqs[c][i].page - 1 /\ hasMore'[c])]_vars

\* the categories a completion event of job j has to refresh
C7_Categories(j) ==
    {"rename", "error"}
        \cup (IF j = IndexId THEN {"index"} ELSE {})
        \cup (IF StartsWith(j, <<"s", "c", "a", "n">>) THEN {"scan"} ELSE {})

\* C7: the refresh callback of a completion event for job j issues a page-1
\* request for rename and error, for index when j is the index job and for scan
\* when j is a scan job, whether or not a fetch of that category is outstanding.
C7_RefreshIssuesPageOne ==
    [][(refreshTimers # <<>> /\ refreshTimers' = Tail(refreshTimers))
          => \A c \in C7_Categories(Head(refreshTimers)) :
                 /\ Len(archiveReqs'[c]) = Len(archiveReqs[c]) + 1
                 /\ archiveReqs'[c][Len(archiveReqs'[c])].page = 1]_vars

\* a step in which the response of a refresh request of category c is applied and
\* replaces the accumulated items
RefreshApplied(c, i) ==
    /\ i \in DOMAIN archiveReqs[c]
    /\ archiveReqs[c][i].src = "refresh"
    /\ archiveReqs'[c] = RemoveAt(archiveReqs[c], i)
    /\ items'[c] # items[c]

\* C10: when the page-1 response of a completion refresh of category c has been
\* applied, the items of c are exactly that page's items and the page counter of c
\* is 1, so that the next scroll-triggered fetch requests page 2.
C10_RefreshIsReset ==
    [][\A c \in Categories : \A i \in 1..MaxRequests :
          RefreshApplied(c, i)
              => (items'[c] = PageItems(1) /\ currentPage'[c] = 1)]_vars

\* a step in which the response (or failure) of a request of category c that was
\* issued before a reset of c is handled
StaleResponse(c, i) ==
    /\ i \in DOMAIN archiveReqs[c]
    /\ archiveReqs[c][i].stale
    /\ archiveReqs'[c] = RemoveAt(archiveReqs[c], i)

\* C11: the response to a request of category c issued before a reset of c (tab
\* activation, clear-issues) changes none of the items, hasMore and the in-flight
\* guard of c when it arrives after that reset.
C11_StaleResponseIgnored ==
    [][\A c \in Categories : \A i \in 1..MaxRequests :
          StaleResponse(c, i)
              => (items'[c] = items[c] /\ hasMore'[c] = hasMore[c]
                  /\ fetchingRef'[c] = fetchingRef[c])]_vars

\* the step issues a request for category c from source src
C29_Issues(c, src) ==
    /\ Len(archiveReqs'[c]) > Len(archiveReqs[c])
    /\ archiveReqs'[c][Len(archiveReqs'[c])].src = src

\* C29: once a response with has_more = false has been applied for category c, no
\* scroll trigger issues a request for c until c is reset (tab activation,
\* refresh, clear-issues); activating the tab of c issues a page-1 request again.
C29_NoScrollAfterLastPage ==
    [][\A c \in Categories :
          /\ C29_Issues(c, "scroll") => ~exhausted[c]
          /\ (activeTab' # activeTab /\ exhausted[c]
                 /\ c \in InSeq(TabCategories(activeTab')))
                => /\ C29_Issues(c, "tab")
                   /\ archiveReqs'[c][Len(archiveReqs'[c])].page = 1]_vars

\* the categories of tab t, as a set
C30_Reset(t) == InSeq(TabCategories(t))

\* C30: activating a tab empties the items of each of its categories, sets their
\* page counter to 1 and their hasMore to true and issues a page-1 request for
\* each; items, page counter and hasMore of the other categories are unchanged.
C30_TabActivationResets ==
    [][activeTab' # activeTab
          => \A c \in Categories :
                 IF c \in C30_Reset(activeTab')
                 THEN /\ items'[c] = <<>>
                      /\ currentPage'[c] = 1
                      /\ hasMore'[c]
                      /\ C29_Issues(c, "tab")
                      /\ archiveReqs'[c][Len(archiveReqs'[c])].page = 1
                 ELSE /\ items'[c] = items[c]
                      /\ currentPage'[c] = currentPage[c]
                      /\ hasMore'[c] = hasMore[c]]_vars

\* the jobs tab has just been activated over a rename list that had pages loaded
\* and reached its end
C30_Witness ==
    /\ activeTab = "jobs"
    /\ items["rename"] # <<>>
    /\ ~hasMore["rename"]
    /\ items["index"] = <<>> /\ items["scan"] = <<>>
    /\ \A c \in {"index", "scan"} :
           /\ archiveReqs[c] # <<>>
           /\ archiveReqs[c][Len(archiveReqs[c])].src = "tab"
           /\ ~archiveReqs[c][Len(archiveReqs[c])].stale
           /\ requested[c] = <<1>>

\* C33: in every reachable state the accumulated items of each category are the
\* items of pages 1..k in page order, for some k >= 0, with no page missing,
\* duplicated or out of order (the one item of page p is p).
C33_ItemsArePagesInOrder ==
    \A c \in Categories : \A k \in DOMAIN items[c] : items[c][k] = PageItems(k)[1]

\* C34: in every reachable state the in-flight guard of category c is set exactly
\* when an /archive request for c is outstanding; no tab switch and no completion
\* of an older request clears it while a request for c is outstanding.
C34_GuardIffOutstanding ==
    \A c \in Categories : fetchingRef[c] <=> (archiveReqs[c] # <<>>)

----------------------------------------------------------------------------
\* Claims about the job type of a job id (checked under SpecJobType)

\* C37: for every job id, once ActivityBar has labelled the job and ArchiveBrowser's
\* refresh callback for it has run, a job labelled 'Scan' has had the scan
\* category refreshed and a job labelled 'Index' the index category.
C37_JobTypesAgree ==
    (jobType # "" /\ completionSeen)
        => /\ jobType = "Scan" => "scan" \in InSeq(refreshedCats)
           /\ jobType = "Index" => "index" \in InSeq(refreshedCats)

----------------------------------------------------------------------------
\* Claims about the process-document form (checked under SpecSubmit)

\* the text of the field does not parse to a positive integer
C31_Invalid == LET id == ParseInt(Trim(documentId)) IN id.nan \/ id.value <= 0

\* the step issues a POST /process-documents
C31_Issues == processRequest' # NoRequest /\ processRequest' # processRequest

\* C31: a submit of a document id that parses to NaN, zero or a negative number
\* issues no /process-documents request and sets an error message; every request
\* issued carries one id, the positive integer the field parses to.
C31_InvalidIdRejected ==
    [][/\ (formOp' = "submit" /\ C31_Invalid)
           => (~C31_Issues /\ processRequest' = processRequest
               /\ message'.type = "error" /\ ~formLoading')
       /\ C31_Issues
           => (/\ ~C31_Invalid
               /\ formOp' = "submit"
               /\ Len(processRequest'.document_ids) = 1
               /\ processRequest'.document_ids[1] \in Nat \ {0}
               /\ processRequest'.document_ids[1] = ParseInt(Trim(documentId)).value)]_vars

\* a submit of a negative id was rejected in FloatingActionButton
C31_Witness ==
    /\ formOp = "submit"
    /\ form = "FloatingActionButton"
    /\ ~ParseInt(Trim(documentId)).nan
    /\ ParseInt(Trim(documentId)).value < 0
    /\ message = ValidationError
    /\ processRequest = NoRequest
    /\ ~formLoading

----------------------------------------------------------------------------
\* Claims about ProgressView (checked under SpecView)

\* the steps in which a /progress request of ProgressView fails
C32_FailureOps == {"pollTimeout", "pollError", "resyncFail"}

\* C32: no failure of a /progress request sets a user-visible error state: a step
\* in which a poll times out or fails leaves the error of ProgressView as it was
\* and only moves the loop to a resync or to a retry timer (ProgressProvider has
\* no error state to set).
C32_FailureSetsNoError ==
    [][viewOp'.op \in C32_FailureOps
          => (viewError' = viewError
              /\ viewPc' \in {"resync", "timer2s", "timer5s", "done"})]_vars

\* C36: after a /progress fetch of ProgressView has succeeded and been applied,
\* the long-poll or the resync that follows a long-poll timeout, loading is false.
C36_LoadedAfterSuccess ==
    (viewOp.op \in {"pollOk", "resyncOk"} /\ viewOp.applied) => ~viewLoading

----------------------------------------------------------------------------
\* Claims about apiService.getProgress (checked under SpecGetProgress)

RECURSIVE C39_Decimal(_)
\* the number a string of decimal digits denotes
C39_Decimal(str) ==
    IF str = <<>> THEN 0
    ELSE C39_Decimal(SubSeq(str, 1, Len(str) - 1)) * 10
             + (CHOOSE d \in 0..9 : DecimalDigits[d + 1] = str[Len(str)])

\* C39: a request issued with wait = true and a server timeout of T seconds
\* carries wait=true and timeout=T and has the client-side timeout
\* (T + 5) * 1000 ms, more than T * 1000 ms; a request issued with wait = false
\* carries neither parameter and has no client-side timeout.
C39_ClientTimeoutExceedsServer ==
    \A k \in DOMAIN request :
        LET r == request[k] IN
        IF call.wait
        THEN /\ {"wait", "timeout"} \subseteq DOMAIN r.params
             /\ r.params["wait"] = <<"t", "r", "u", "e">>
             /\ \A i \in DOMAIN r.params["timeout"] :
                    \E d \in 0..9 : DecimalDigits[d + 1] = r.params["timeout"][i]
             /\ C39_Decimal(r.params["timeout"]) = call.timeout
             /\ r.timeout = (call.timeout + 5) * 1000
             /\ r.timeout > call.timeout * 1000
        ELSE /\ "wait" \notin DOMAIN r.params
             /\ "timeout" \notin DOMAIN r.params
             /\ r.timeout = NoTimeout

\* the long-poll of ProgressView, getProgress(undefined, true, 30), was issued
C39_Witness ==
    /\ request # <<>>
    /\ call = [jobId |-> <<>>, wait |-> TRUE, timeout |-> 30]
    /\ request[1].timeout = 35000
    /\ DOMAIN request[1].params = {"wait", "timeout"}

----------------------------------------------------------------------------
\* Claims about the notification round (checked under SpecNotify)

\* a step that is a notification round
RoundStep == lastOp'.op \in {"pollOk", "resyncOk"} /\ lastRound'.active

TimesInvoked(cb) ==
    Cardinality({k \in DOMAIN lastRound'.invoked : lastRound'.invoked[k] = cb})

\* C12: on every successful /progress fetch after the initial one that is
\* delivered to the mounted provider, each registered subscriber is invoked exactly
\* once, in registration order, with (current, previous): current the feed just
\* fetched, previous the feed of the preceding successful fetch (which the store
\* holds as progress when the response arrives).
C12_SubscribersNotifiedInOrder ==
    [][(RoundStep /\ lastRound'.removed = {})
          => /\ lastRound'.invoked = subscribersRef
             /\ lastRound'.cur = serverJobs
             /\ lastRound'.prev = progress]_vars

C12_Witness ==
    /\ lastRound.active
    /\ Len(lastRound.invoked) >= 2
    /\ lastRound.removed = {}
    /\ lastRound.cur # lastRound.prev
    /\ lastRound.prev # EmptyFeed

\* C13: when a callback calls an unsubscribe handle (its own or another one's)
\* during a round, every subscriber still registered when the round ends has been
\* invoked exactly once in that round.
C13_UnsubscribeDuringRound ==
    [][(RoundStep /\ lastRound'.removed # {})
          => \A cb \in Callbacks :
                 IndexOf(subscribersRef', cb) # 0 => TimesInvoked(cb) = 1]_vars

C13_Witness ==
    /\ lastRound.active
    /\ lastRound.removed # {}
    /\ Len(lastRound.invoked) >= 2
    /\ lastRound.invoked[1] \in lastRound.removed

\* C18: when a subscriber throws during a round, every subscriber registered after
\* it is still invoked in that round, the store records the new feed as previous
\* and the poll loop issues its next request.
C18_ThrowingSubscriberIsolated ==
    [][(RoundStep /\ lastRound'.threw # {} /\ lastRound'.removed = {})
          => /\ lastRound'.invoked = subscribersRef
             /\ previousProgressRef' = serverJobs
             /\ pc'[1] = "poll"
             /\ lastOp'.issued]_vars

C18_Witness ==
    /\ lastRound.active
    /\ lastRound.threw # {}
    /\ Len(lastRound.invoked) >= 2
    /\ lastRound.invoked[1] \in lastRound.threw
    /\ previousProgressRef = lastRound.cur
    /\ pc[1] = "poll"

----------------------------------------------------------------------------
\* Claims about ActivityBar (checked under SpecDisplay)

\* C5: once the first non-empty feed has been displayed, two successive changes
\* of the displayed feed are at least MIN_DISPLAY_TIME apart, whatever feeds
\* (empty ones included) are pushed.
C5_MinimumDisplayTime ==
    [][(displayedProgress'.feed # displayedProgress.feed /\ lastChangeAt >= 0)
          => now' - lastChangeAt >= MIN_DISPLAY_TIME]_vars

\* a timeout that carries the feed pushed last is due and has not run yet
C25_UpdateDue ==
    \E tm \in timeouts : now >= tm.at /\ tm.value.feed = barProgress.feed

\* C25: while ActivityBar is mounted, once MIN_DISPLAY_TIME has passed since the
\* last push of a feed F (no later feed pushed), the displayed feed is F and stays
\* F; at the very end of the window the deferred update may be the next thing to run.
C25_DisplayedWithinWindow ==
    (barMounted /\ lastPushAt >= 0 /\ now - lastPushAt >= MIN_DISPLAY_TIME
        /\ ~C25_UpdateDue)
        => displayedProgress.feed = barProgress.feed

\* a deferred update has shown the pushed feed at the end of its window
C25_Witness ==
    /\ barMounted
    /\ lastPushAt >= 0
    /\ now - lastPushAt >= MIN_DISPLAY_TIME
    /\ lastChangeAt > lastPushAt
    /\ displayedProgress.feed = barProgress.feed
    /\ ~IsEmptyFeed(displayedProgress.feed)

\* C26: a feed pushed at least MIN_DISPLAY_TIME after the displayed feed last
\* changed is displayed in the step that pushes it, and that step leaves no
\* deferred update pending.
C26_ImmediateAfterWindow ==
    [][(barMounted /\ lastPushAt' = now /\ barProgress' # barProgress
           /\ lastChangeAt >= 0 /\ now - lastChangeAt >= MIN_DISPLAY_TIME)
          => (displayedProgress'.feed = barProgress'.feed /\ timeouts' = {})]_vars

\* C27: at most one deferred update is pending at any time, and a deferred update
\* that fires on the mounted component leaves the feed pushed last displayed.
C27_OnePendingLatestShown ==
    [][/\ Cardinality(timeouts') <= 1
       /\ (lastFired' # NoTimer /\ timeouts' # timeouts /\ barMounted)
             => displayedProgress'.feed = barProgress.feed]_vars

\* a deferred update has fired and changed the display to the feed pushed last,
\* and the effect has scheduled the one update that is pending now
C27_Witness ==
    /\ lastFired # NoTimer
    /\ barMounted
    /\ lastChangeAt = now
    /\ lastPushAt < now
    /\ displayedProgress.feed = barProgress.feed
    /\ Cardinality(timeouts) = 1

\* C28: after ActivityBar is unmounted no deferred update is pending, so none
\* fires: the displayed feed and the last-update time stay what they were.
C28_NoUpdateAfterUnmount ==
    [][~barMounted
          => /\ timeouts = {}
             /\ displayedProgress' = displayedProgress
             /\ lastUpdateTimeRef' = lastUpdateTimeRef]_vars

\* the component was unmounted while a deferred update was pending, and the time
\* the update was due has passed
C28_Witness ==
    /\ ~barMounted
    /\ displayedProgress.feed # barProgress.feed
    /\ now - lastPushAt >= MIN_DISPLAY_TIME
    /\ lastPushAt >= 0

----------------------------------------------------------------------------
\* Claims about the subscribers' events (checked under SpecEvents)

\* C20: for every feed F, calling the subscribers of ActivityBar and ArchiveBrowser
\* with (current = F, previous = F) produces no failure toast, no new-error toast
\* and no archive refresh, however often the call is repeated.
C20_SameFeedNoEvents ==
    (rounds > 0 /\ currentProgress = previousProgress)
        => (toasts = {} /\ refreshes = {})

C20_Witness ==
    /\ rounds = MaxRounds
    /\ currentProgress = previousProgress
    /\ \E j \in EventJobs : currentProgress[j].status = "failed"
    /\ \E j \in EventJobs :
           currentProgress[j].status = "running" /\ Len(currentProgress[j].errors) > 0
    /\ toasts = {}
    /\ refreshes = {}

\* the subscribers have been called with the pair held
C21_Called == rounds > 0

\* C21: for every pair (current, previous) and every job j of current, each of
\* the two subscribers emits a failure toast for j if and only if previous[j]
\* is running and current[j] is failed.
C21_FailureEventIff ==
    C21_Called =>
        \A j \in Entries(currentProgress) : \A by \in {"activityBar", "archiveBrowser"} :
            (Toast(by, "failure", j, <<>>) \in toasts)
                <=> (previousProgress[j].status = "running"
                        /\ currentProgress[j].status = "failed")

C21_Witness ==
    /\ C21_Called
    /\ \E j \in EventJobs :
           /\ Toast("activityBar", "failure", j, <<>>) \in toasts
           /\ Toast("archiveBrowser", "failure", j, <<>>) \in toasts
    /\ \E j \in Entries(currentProgress) :
           /\ currentProgress[j].status = "failed"
           /\ previousProgress[j].status = "failed"

\* the number of errors previous[j] holds, zero for a missing entry or array
C22_PreviousLength(j) == Len(previousProgress[j].errors)

\* C22: when current[j] is running and holds more errors than previous[j], the
\* new-error toast for j reports exactly the errors of current[j] from index
\* previous-length onward, all of them.
C22_NewErrorsReportSuffix ==
    rounds > 0 =>
        \A j \in Entries(currentProgress) :
            (currentProgress[j].status = "running"
                /\ Len(currentProgress[j].errors) > C22_PreviousLength(j))
                => Toast("activityBar", "newError", j,
                         SubSeq(currentProgress[j].errors, C22_PreviousLength(j) + 1,
                                Len(currentProgress[j].errors))) \in toasts

\* C23: for every pair (current, previous) and every job j of current, an archive
\* refresh is scheduled for j if and only if current[j] is completed or failed and
\* the status of previous[j] differs from it (a missing entry differs).
C23_CompletionEventIff ==
    rounds > 0 =>
        \A j \in Entries(currentProgress) :
            (j \in refreshes)
                <=> (currentProgress[j].status \in {"completed", "failed"}
                        /\ previousProgress[j].status # currentProgress[j].status)

C23_Witness ==
    /\ rounds > 0
    /\ \E j \in EventJobs :
           /\ j \in refreshes
           /\ previousProgress[j] = NoJob
    /\ \E j \in Entries(currentProgress) :
           /\ j \notin refreshes
           /\ currentProgress[j].status = "completed"

----------------------------------------------------------------------------
\* Claims about the store and the archive refresh together (checked under
\* SpecRefresh)

\* an archive refresh of an earlier round is still to be issued or answered
C24_RefreshPending ==
    \/ refreshTimers # <<>>
    \/ \E c \in Categories : \E k \in 1..Len(archiveReqs[c]) :
           archiveReqs[c][k].src = "refresh"

\* C24: a notification round that triggers an archive refresh invokes every
\* subscriber and issues the store's next /progress request in the same step,
\* while no /archive request of the refresh has been issued yet; and a pending
\* or outstanding refresh never keeps the store from its next round.
C24_RefreshDoesNotBlockStore ==
    [][/\ (RoundStep /\ Len(refreshTimers') > Len(refreshTimers))
           => /\ lastRound'.invoked = subscribersRef
              /\ pc'[1] = "poll"
              /\ lastOp'.issued
              /\ archiveReqs' = archiveReqs
              /\ issuedCount' = issuedCount
       /\ (C24_RefreshPending /\ pc[1] \in {"poll", "resync"} /\ isMountedRef)
           => ENABLED RefreshRound(1)]_vars

\* a round has just been delivered while an earlier refresh was still outstanding
C24_Witness ==
    /\ lastOp.op \in {"pollOk", "resyncOk"}
    /\ lastOp.issued
    /\ lastRound.active
    /\ Len(lastRound.invoked) >= 2
    /\ \E c \in Categories : \E k \in 1..Len(archiveReqs[c]) :
           archiveReqs[c][k].src = "refresh"

====
